---- MODULE Spec2Model ----
(***************************************************************************)
(* Model of the racing_muhasebe accounting application: the record store   *)
(* (tables of the Supabase schema), the page components' local state and   *)
(* their handlers.  Every store request of a handler is one atomic step;   *)
(* a handler is a chain of such steps followed through pc[s].              *)
(***************************************************************************)
EXTENDS Integers, Sequences, FiniteSets, TLC

(***************************************************************************)
(* Bounds of the model.                                                    *)
(***************************************************************************)
MaxRows == 3          \* source rows in the record store, all tables together

Sessions == {1, 2}    \* browser tabs of the admin

NULL == -1            \* SQL NULL / JS null in an integer column

(***************************************************************************)
(* Dates are integers yyyymmdd; a month is yyyymm.                         *)
(***************************************************************************)
Months == {202601, 202602}
\* new Date().toISOString().split('T')[0]: what the clock can read
Todays == {20260120}
\* `${selectedMonth}-01`
MonthStartDate(m) == m * 100 + 1

(***************************************************************************)
(* Strings that the code inspects character by character are tuples of     *)
(* one-character strings.                                                  *)
(***************************************************************************)
LowerOf(c) ==
  LET upper == <<"A", "B", "C", "D", "E", "F", "G", "H", "I", "J", "K", "L", "M",
                 "N", "O", "P", "Q", "R", "S", "T", "U", "V", "W", "X", "Y", "Z">>
      lower == <<"a", "b", "c", "d", "e", "f", "g", "h", "i", "j", "k", "l", "m",
                 "n", "o", "p", "q", "r", "s", "t", "u", "v", "w", "x", "y", "z">>
  IN IF \E i \in 1..26 : upper[i] = c
     THEN lower[CHOOSE i \in 1..26 : upper[i] = c] ELSE c
\* String.prototype.toLowerCase
toLowerCase(str) == [i \in DOMAIN str |-> LowerOf(str[i])]

PaymentMethods == {"cash"}
DefaultFeeAmount == 200

VARIABLES
  \* ---- record store (supabase/migrations/..._create_accounting_schema.sql)
  settings,        \* settings.membership_fee_amount of the single row id = 1
  members,         \* set of member rows
  membership_fees, \* set of fee rows
  reimbursements,  \* set of reimbursement rows
  cash_expenses,   \* set of cash expense rows
  products,        \* set of product rows
  productSeq,      \* number of product ids handed out so far
  sales_orders,    \* set of sales order rows
  sales_order_items, \* set of sales order item rows
  bank_transactions, \* set of bank transaction rows
  transactions_ledger, \* set of ledger rows
  \* ---- per session (component state of the mounted page)
  page,            \* the mounted page
  pc,              \* position of the running handler, "idle" when none
  ctx,             \* locals of the running handler
  selectedMonth,   \* MembershipFees.selectedMonth
  feeAmount,       \* MembershipFees.feeAmount
  list,            \* rows loaded by the mounted page (fees, reimbursements, members, products)
  importData,      \* Members.importData
  wizard           \* BankImport: currentStep, file, parsedData, columnMapping

store == <<settings, members, membership_fees, reimbursements, cash_expenses,
           products, productSeq, sales_orders, sales_order_items,
           bank_transactions, transactions_ledger>>
local == <<page, pc, ctx, selectedMonth, feeAmount, list, importData, wizard>>
vars == <<store, local>>

\* the rows entered by the admin so far, deleted products included: ledger
\* rows and order items come with them
TotalRows ==
  Cardinality(members) + Cardinality(membership_fees) + Cardinality(reimbursements)
  + Cardinality(cash_expenses) + productSeq + Cardinality(sales_orders)
  + Cardinality(bank_transactions)

Room(n) == TotalRows + n <= MaxRows
\* the ids a table's rows can have
Ids == 1..MaxRows

\* gen_random_uuid(): a fresh id of a table that never deletes rows
NewId(table) == Cardinality(table) + 1

\* the pages of App.renderPage
Pages == {"dashboard", "members", "fees", "merch", "reimbursements", "bank",
          "cash", "reports", "settings"}

saleForm0 == [member_id |-> NULL, order_date |-> NULL, payment_method |-> "unpaid",
              payment_status |-> "unpaid", items |-> <<>>]
\* locals of a running handler: an id, the payment method, the clock reading,
\* a list of ids, a list of rows, a loop index, the submitted sale form
ctx0 == [id |-> NULL, method |-> "", today |-> NULL, ids |-> <<>>, rows |-> <<>>,
         i |-> 0, form |-> saleForm0]
wizard0 == [currentStep |-> 1, file |-> "", parsedData |-> <<>>, columnNames |-> <<>>,
            columnMapping |-> [txn_date |-> <<>>, description |-> <<>>,
                               amount |-> <<>>, direction |-> <<>>]]

Init ==
  /\ settings = DefaultFeeAmount
  /\ members = {}
  /\ membership_fees = {}
  /\ reimbursements = {}
  /\ cash_expenses = {}
  /\ products = {}
  /\ productSeq = 0
  /\ sales_orders = {}
  /\ sales_order_items = {}
  /\ bank_transactions = {}
  /\ transactions_ledger = {}
  /\ page = [s \in Sessions |-> "dashboard"]
  /\ pc = [s \in Sessions |-> "idle"]
  /\ ctx = [s \in Sessions |-> ctx0]
  /\ selectedMonth = [s \in Sessions |-> 202601]
  /\ feeAmount = [s \in Sessions |-> DefaultFeeAmount]
  /\ list = [s \in Sessions |-> {}]
  /\ importData = [s \in Sessions |-> <<>>]
  /\ wizard = [s \in Sessions |-> wizard0]

(***************************************************************************)
(* The ledger: the only write the application makes is an insert of one    *)
(* row.                                                                    *)
(***************************************************************************)
LedgerRow(txn_date, txn_type, amount, member_id, project, category, source, reference_type, reference_id) ==
  [id |-> NewId(transactions_ledger), txn_date |-> txn_date, txn_type |-> txn_type,
   amount |-> amount, member_id |-> member_id, project |-> project,
   category |-> category, source |-> source, reference_type |-> reference_type,
   reference_id |-> reference_id]

\* a faulty variant of LedgerInsert that overwrites the table, against which
\* C5 is tested
LedgerInsert_overwrite(row) == {row}

\* supabase.from('transactions_ledger').insert(row)
LedgerInsert(row) == transactions_ledger \cup {row}

\* Math.abs
Abs(n) == IF n < 0 THEN -n ELSE n

(***************************************************************************)
(* Reports page (Reports, src/src/pages/Reimbursements.tsx:491-)           *)
(* The page holds the active tab, the date range and the rows of the       *)
(* report of the active tab; it keeps them in list[s].                     *)
(***************************************************************************)
\* the rows of a table in the order a select without .order returns them:
\* the order of insertion
RECURSIVE InIdOrder(_)
InIdOrder(rows) ==
  IF rows = {} THEN <<>>
  ELSE LET r == CHOOSE x \in rows : \A y \in rows : x.id <= y.id
       IN <<r>> \o InIdOrder(rows \ {r})

\* .order('txn_date'); entries of one date follow one another in an order the
\* store does not fix, here the order of insertion
RECURSIVE OrderByTxnDate(_)
OrderByTxnDate(rows) ==
  IF rows = {} THEN <<>>
  ELSE LET r == CHOOSE x \in rows : \A y \in rows :
                  \/ x.txn_date < y.txn_date
                  \/ x.txn_date = y.txn_date /\ x.id <= y.id
       IN <<r>> \o OrderByTxnDate(rows \ {r})

\* .gte('txn_date', dateRange.start).lte('txn_date', dateRange.end)
LedgerInRange(dateRange) ==
  {t \in transactions_ledger : /\ t.txn_date >= dateRange.start
                               /\ t.txn_date <= dateRange.end}

\* a faulty variant of PLKey, a key that leaves the project out, against
\* which C15 is tested
PLKey_categoryOnly(txn) == txn.category

\* `${txn.category}-${txn.project}`
PLKey(txn) == txn.category \o "-" \o txn.project

\* the body of the forEach of loadPLReport: summary is the list of the
\* object's entries in the order their keys were added
PLAdd(summary, txn) ==
  LET key == PLKey(txn)
      with == IF \E i \in DOMAIN summary : summary[i].key = key THEN summary
              ELSE Append(summary, [key |-> key, category |-> txn.category,
                                    project |-> txn.project, income |-> 0,
                                    expense |-> 0])
      k == CHOOSE i \in DOMAIN with : with[i].key = key
  IN IF txn.amount > 0
     THEN [with EXCEPT ![k].income = @ + txn.amount]
     ELSE [with EXCEPT ![k].expense = @ + Abs(txn.amount)]

RECURSIVE PLFold(_, _)
PLFold(summary, data) ==
  IF data = <<>> THEN summary ELSE PLFold(PLAdd(summary, Head(data)), Tail(data))

loadPLReport(dateRange) == PLFold(<<>>, InIdOrder(LedgerInRange(dateRange)))

\* .reduce((sum, x) => sum + parseFloat(String(x[field])), 0) over a set of rows
RECURSIVE SumOf(_, _)
SumOf(rows, field) ==
  IF rows = {} THEN 0
  ELSE LET r == CHOOSE x \in rows : TRUE IN r[field] + SumOf(rows \ {r}, field)

\* a faulty variant of Unpaid that keeps every row, against which C14 is tested
Unpaid_all(rows) == rows

\* .filter(x => x.payment_status === 'unpaid')
Unpaid(rows) == {x \in rows : x.payment_status = "unpaid"}

\* the body of the members.map of loadMemberBalances
MemberBalance(member) ==
  LET memberFees == {f \in membership_fees : f.member_id = member.id}
      memberSales == {o \in sales_orders : o.member_id = member.id}
      memberReimb == {r \in reimbursements : r.member_id = member.id}
      feesCharged == SumOf(Unpaid(memberFees), "amount")
      salesUnpaid == SumOf(Unpaid(memberSales), "total_amount")
      reimbOwed == SumOf(Unpaid(memberReimb), "amount")
  IN [member_name |-> member.full_name, fees_owed |-> feesCharged,
      sales_owed |-> salesUnpaid, reimb_owed |-> reimbOwed,
      net_balance |-> feesCharged + salesUnpaid - reimbOwed]

loadMemberBalances ==
  LET ms == InIdOrder(members) IN [i \in DOMAIN ms |-> MemberBalance(ms[i])]

\* txn.txn_date.substring(0, 7)
MonthOf(txn_date) == txn_date \div 100

\* a faulty variant of CashflowRows that reads the entries as they were
\* inserted, against which C16 is tested
CashflowRows_unordered(rows) == InIdOrder(rows)

\* the entries loadCashflow iterates over
CashflowRows(rows) == OrderByTxnDate(rows)

\* the body of the forEach of loadCashflow
CashflowAdd(monthlyData, txn) ==
  LET month == MonthOf(txn.txn_date)
      with == IF \E i \in DOMAIN monthlyData : monthlyData[i].month = month
              THEN monthlyData
              ELSE Append(monthlyData, [month |-> month, inflow |-> 0, outflow |-> 0])
      k == CHOOSE i \in DOMAIN with : with[i].month = month
  IN IF txn.amount > 0
     THEN [with EXCEPT ![k].inflow = @ + txn.amount]
     ELSE [with EXCEPT ![k].outflow = @ + Abs(txn.amount)]

RECURSIVE CashflowFold(_, _)
CashflowFold(monthlyData, data) ==
  IF data = <<>> THEN monthlyData
  ELSE CashflowFold(CashflowAdd(monthlyData, Head(data)), Tail(data))

loadCashflow(dateRange) == CashflowFold(<<>>, CashflowRows(LedgerInRange(dateRange)))

\* the product's name, which the store model leaves out, is replaced by its id
loadInventory ==
  LET ps == InIdOrder(products) IN
  [i \in DOMAIN ps |->
     LET productSales == {it \in sales_order_items : it.product_id = ps[i].id} IN
     [product_id |-> ps[i].id, stock |-> ps[i].stock_quantity,
      unit_price |-> ps[i].unit_price, total_sold |-> SumOf(productSales, "quantity"),
      total_revenue |-> SumOf(productSales, "line_total")]]

ReportTabs == {"pl", "balances", "cashflow", "inventory"}

loadReportData(activeTab, dateRange) ==
  CASE activeTab = "pl" -> loadPLReport(dateRange)
    [] activeTab = "balances" -> loadMemberBalances
    [] activeTab = "cashflow" -> loadCashflow(dateRange)
    [] activeTab = "inventory" -> loadInventory

\* new Date(new Date().getFullYear(), 0, 1) ... new Date(): from the first day
\* of the year to today
DefaultDateRange == [start |-> 20260101, end |-> 20260120]

Report(activeTab, dateRange) ==
  [activeTab |-> activeTab, dateRange |-> dateRange,
   data |-> loadReportData(activeTab, dateRange)]

\* a click on a tab: the effect on [activeTab, dateRange] loads its report
setActiveTab(s, tab) ==
  /\ page[s] = "reports" /\ pc[s] = "idle"
  /\ list' = [list EXCEPT ![s] = Report(tab, list[s].dateRange)]
  /\ UNCHANGED <<store, page, pc, ctx, selectedMonth, feeAmount, importData, wizard>>

\* setDateRange({ ...dateRange, start }) or setDateRange({ ...dateRange, end })
setDateRange(s, dateRange) ==
  /\ page[s] = "reports" /\ pc[s] = "idle"
  /\ \/ dateRange.start = list[s].dateRange.start
     \/ dateRange.end = list[s].dateRange.end
  /\ list' = [list EXCEPT ![s] = Report(list[s].activeTab, dateRange)]
  /\ UNCHANGED <<store, page, pc, ctx, selectedMonth, feeAmount, importData, wizard>>

(***************************************************************************)
(* Loads done by a page when it mounts and after its handlers.             *)
(***************************************************************************)
\* MembershipFees.loadFees: the fees of the selected month
loadFees(m) == {f \in membership_fees : f.fee_month = MonthStartDate(m)}
\* Reimbursements.loadData
loadReimbursements == reimbursements
\* Members.loadMembers
loadMembers == members
\* MerchSales.loadProducts
loadProducts == products

PageLoad(p, m) ==
  CASE p = "fees" -> loadFees(m)
    [] p = "reimbursements" -> loadReimbursements
    [] p = "members" -> loadMembers
    [] p = "merch" -> loadProducts
    [] p = "reports" -> Report("pl", DefaultDateRange)
    [] OTHER -> {}

\* App: onNavigate(p) unmounts the current page and mounts p, whose effects
\* load its lists; the state of the page left is discarded.
Navigate(s, p) ==
  /\ pc[s] = "idle"
  /\ p # page[s]
  /\ page' = [page EXCEPT ![s] = p]
  /\ selectedMonth' = [selectedMonth EXCEPT ![s] = 202601]
  /\ feeAmount' = [feeAmount EXCEPT ![s] = IF p = "fees" THEN settings ELSE DefaultFeeAmount]
  /\ list' = [list EXCEPT ![s] = PageLoad(p, 202601)]
  /\ importData' = [importData EXCEPT ![s] = <<>>]
  /\ wizard' = [wizard EXCEPT ![s] = wizard0]
  /\ UNCHANGED <<store, pc, ctx>>

\* loadX() at the end of a handler: the page's list is read again
reload(s) ==
  /\ pc[s] = "reload"
  /\ list' = [list EXCEPT ![s] = PageLoad(page[s], selectedMonth[s])]
  /\ feeAmount' = feeAmount
  /\ pc' = [pc EXCEPT ![s] = "idle"]
  /\ ctx' = [ctx EXCEPT ![s] = ctx0]
  /\ UNCHANGED <<store, page, selectedMonth, importData, wizard>>

\* the elements of a finite set of integers in ascending order
RECURSIVE Ascending(_)
Ascending(S) ==
  IF S = {} THEN <<>>
  ELSE LET x == CHOOSE y \in S : \A z \in S : y <= z
       IN <<x>> \o Ascending(S \ {x})


(***************************************************************************)
(* Members page (src/src/pages/Members.tsx)                                *)
(***************************************************************************)
MemberRow(id, full_name, join_date) ==
  [id |-> id, full_name |-> full_name, join_date |-> join_date, leave_date |-> NULL]

\* insert of several member rows in one request; the team and notes the page
\* sends with each row play no part in any handler and are left out
RECURSIVE InsertMembers(_, _)
InsertMembers(table, rows) ==
  IF rows = <<>> THEN table
  ELSE InsertMembers(table \cup {MemberRow(NewId(table), Head(rows).full_name,
                                           Head(rows).join_date)}, Tail(rows))

handleAddMember(s, full_name, join_date, ok) ==
  /\ page[s] = "members" /\ pc[s] = "idle"
  /\ Room(1)
  /\ IF ok
     THEN /\ members' = InsertMembers(members, <<[full_name |-> full_name,
                                                  join_date |-> join_date]>>)
          /\ pc' = [pc EXCEPT ![s] = "reload"]
     ELSE UNCHANGED <<members, pc>>
  /\ UNCHANGED <<settings, membership_fees, reimbursements, cash_expenses, products,
                 productSeq, sales_orders, sales_order_items, bank_transactions,
                 transactions_ledger, page, ctx, selectedMonth, feeAmount, list,
                 importData, wizard>>

handleMarkLeft(s, memberId, today, ok) ==
  /\ page[s] = "members" /\ pc[s] = "idle"
  /\ \E m \in list[s] : m.id = memberId /\ m.leave_date = NULL
  /\ IF ok
     THEN /\ members' = {IF m.id = memberId THEN [m EXCEPT !.leave_date = today] ELSE m
                         : m \in members}
          /\ pc' = [pc EXCEPT ![s] = "reload"]
     ELSE UNCHANGED <<members, pc>>
  /\ UNCHANGED <<settings, membership_fees, reimbursements, cash_expenses, products,
                 productSeq, sales_orders, sales_order_items, bank_transactions,
                 transactions_ledger, page, ctx, selectedMonth, feeAmount, list,
                 importData, wizard>>

\* A record of an uploaded member file: full_name and/or the key
\* 'İsim Soyisim' (<<>> when the key is absent), join_date (NULL when absent).
RawMember(full_name, isim, join_date) ==
  [full_name |-> full_name, isim |-> isim, join_date |-> join_date]

\* Members.handleFileUpload: m.full_name || m['İsim Soyisim'], m.join_date || today
Members_handleFileUpload(s, file, today) ==
  /\ page[s] = "members" /\ pc[s] = "idle"
  /\ importData' = [importData EXCEPT ![s] =
       [i \in DOMAIN file |->
          [full_name |-> IF file[i].full_name # <<>> THEN file[i].full_name
                         ELSE file[i].isim,
           join_date |-> IF file[i].join_date # NULL THEN file[i].join_date
                         ELSE today]]]
  /\ UNCHANGED <<store, page, pc, ctx, selectedMonth, feeAmount, list, wizard>>

\* a faulty variant of newMembers, a filter that compares the names as they are
\* written, against which C12 is tested
newMembers_caseSensitive(loaded, data) ==
  SelectSeq(data, LAMBDA m : m.full_name \notin {x.full_name : x \in loaded})

\* existingNames and the filter of Members.handleImport
existingNames(loaded) == {toLowerCase(m.full_name) : m \in loaded}
newMembers(loaded, data) ==
  SelectSeq(data, LAMBDA m : toLowerCase(m.full_name) \notin existingNames(loaded))

Members_handleImport(s, ok) ==
  /\ page[s] = "members" /\ pc[s] = "idle"
  /\ importData[s] # <<>>
  /\ LET new == newMembers(list[s], importData[s]) IN
       /\ Room(Len(new))
       /\ IF new = <<>>
          THEN UNCHANGED <<members, pc, importData>>
          ELSE IF ok
          THEN /\ members' = InsertMembers(members, new)
               /\ importData' = [importData EXCEPT ![s] = <<>>]
               /\ pc' = [pc EXCEPT ![s] = "reload"]
          ELSE UNCHANGED <<members, pc, importData>>
  /\ UNCHANGED <<settings, membership_fees, reimbursements, cash_expenses, products,
                 productSeq, sales_orders, sales_order_items, bank_transactions,
                 transactions_ledger, page, ctx, selectedMonth, feeAmount, list, wizard>>

(***************************************************************************)
(* Membership fees page (src/src/pages/MembershipFees.tsx)                 *)
(***************************************************************************)
\* the month picker: setSelectedMonth, then the effect loadFeeAmount(); loadFees()
setSelectedMonth(s, m) ==
  /\ page[s] = "fees" /\ pc[s] = "idle"
  /\ m # selectedMonth[s]
  /\ selectedMonth' = [selectedMonth EXCEPT ![s] = m]
  /\ feeAmount' = [feeAmount EXCEPT ![s] = settings]
  /\ list' = [list EXCEPT ![s] = loadFees(m)]
  /\ UNCHANGED <<store, page, pc, ctx, importData, wizard>>

\* the select of handleGenerateFees:
\*   .lte('join_date', monthStart).or(`leave_date.is.null,leave_date.gte.${monthStart}`)
activeMembers(m) ==
  {mb \in members : /\ mb.join_date <= MonthStartDate(m)
                    /\ (mb.leave_date = NULL \/ mb.leave_date >= MonthStartDate(m))}

FeeRow(id, member_id, fee_month, amount) ==
  [id |-> id, member_id |-> member_id, fee_month |-> fee_month, amount |-> amount,
   payment_status |-> "unpaid", payment_method |-> "", payment_date |-> NULL]

\* a faulty variant of FeeConflict, a table without the UNIQUE constraint,
\* against which C9 is tested
FeeConflict_none(table, member_id, fee_month) == FALSE

\* UNIQUE(member_id, fee_month)
FeeConflict(table, member_id, fee_month) ==
  \E f \in table : f.member_id = member_id /\ f.fee_month = fee_month

\* a faulty variant of OnConflictDoNothing, the upsert with
\* ignoreDuplicates: false (ON CONFLICT DO UPDATE), against which C10 is tested
OnConflictDoUpdate(table, member_id, fee_month, amount) ==
  IF \E f \in table : f.member_id = member_id /\ f.fee_month = fee_month
  THEN {IF f.member_id = member_id /\ f.fee_month = fee_month
        THEN [f EXCEPT !.amount = amount, !.payment_status = "unpaid"]
        ELSE f : f \in table}
  ELSE table \cup {[id |-> Cardinality(table) + 1, member_id |-> member_id,
                    fee_month |-> fee_month, amount |-> amount,
                    payment_status |-> "unpaid", payment_method |-> "",
                    payment_date |-> NULL]}

\* .upsert(rows, { onConflict: 'member_id,fee_month', ignoreDuplicates: true }):
\* INSERT ... ON CONFLICT (member_id, fee_month) DO NOTHING
OnConflictDoNothing(table, member_id, fee_month, amount) ==
  IF FeeConflict(table, member_id, fee_month) THEN table
  ELSE table \cup {FeeRow(NewId(table), member_id, fee_month, amount)}

RECURSIVE upsertFees(_, _, _, _)
upsertFees(table, memberIds, fee_month, amount) ==
  IF memberIds = <<>> THEN table
  ELSE upsertFees(OnConflictDoNothing(table, Head(memberIds), fee_month, amount),
                  Tail(memberIds), fee_month, amount)

handleGenerateFees_select(s) ==
  /\ page[s] = "fees" /\ pc[s] = "idle"
  /\ LET active == activeMembers(selectedMonth[s]) IN
       /\ Room(Cardinality(active))
       /\ IF active = {}
          THEN UNCHANGED <<pc, ctx>>
          ELSE /\ pc' = [pc EXCEPT ![s] = "generate_upsert"]
               /\ ctx' = [ctx EXCEPT ![s] = [ctx0 EXCEPT
                             !.ids = Ascending({mb.id : mb \in active})]]
  /\ UNCHANGED <<store, page, selectedMonth, feeAmount, list, importData, wizard>>

handleGenerateFees_upsert(s, ok) ==
  /\ pc[s] = "generate_upsert"
  /\ IF ok
     THEN /\ membership_fees' = upsertFees(membership_fees, ctx[s].ids,
                                           MonthStartDate(selectedMonth[s]), feeAmount[s])
          /\ pc' = [pc EXCEPT ![s] = "reload"]
     ELSE /\ membership_fees' = membership_fees
          /\ pc' = [pc EXCEPT ![s] = "idle"]
  /\ ctx' = [ctx EXCEPT ![s] = ctx0]
  /\ UNCHANGED <<settings, members, reimbursements, cash_expenses, products, productSeq,
                 sales_orders, sales_order_items, bank_transactions, transactions_ledger,
                 page, selectedMonth, feeAmount, list, importData, wizard>>

\* a faulty variant of MarkPaidUpdate, the update without its .eq('id', id)
\* filter, against which C2 is tested
MarkPaidUpdate_unfiltered(table, id, method, today) ==
  {[r EXCEPT !.payment_status = "paid", !.payment_method = method,
             !.payment_date = today] : r \in table}

\* .update({ payment_status: 'paid', payment_method, payment_date }).eq('id', id)
MarkPaidUpdate(table, id, method, today) ==
  {IF r.id = id
   THEN [r EXCEPT !.payment_status = "paid", !.payment_method = method,
                  !.payment_date = today]
   ELSE r : r \in table}

\* The "Mark Paid" button is rendered for the rows of the loaded list whose
\* payment_status is 'unpaid'.
Fees_handleMarkPaid_update(s, feeId, paymentMethod, today, ok) ==
  /\ page[s] = "fees" /\ pc[s] = "idle"
  /\ \E f \in list[s] : f.id = feeId /\ f.payment_status = "unpaid"
  /\ IF ok
     THEN /\ membership_fees' = MarkPaidUpdate(membership_fees, feeId, paymentMethod, today)
          /\ pc' = [pc EXCEPT ![s] = "fee_ledger"]
          /\ ctx' = [ctx EXCEPT ![s] = [ctx0 EXCEPT !.id = feeId, !.method = paymentMethod,
                                                   !.today = today]]
     ELSE UNCHANGED <<membership_fees, pc, ctx>>
  /\ UNCHANGED <<settings, members, reimbursements, cash_expenses, products, productSeq,
                 sales_orders, sales_order_items, bank_transactions, transactions_ledger,
                 page, selectedMonth, feeAmount, list, importData, wizard>>

\* the ledger row of MembershipFees.handleMarkPaid
FeeLedgerRow(fee, paymentMethod, today) ==
  LedgerRow(today, "membership_fee_payment", fee.amount, fee.member_id, "General",
            "membership", paymentMethod, "membership_fee", fee.id)

\* fees.find(f => f.id === feeId); the result of the insert is not inspected
Fees_handleMarkPaid_ledger(s, ok) ==
  /\ pc[s] = "fee_ledger"
  /\ LET found == {f \in list[s] : f.id = ctx[s].id} IN
       IF found # {} /\ ok
       THEN transactions_ledger' =
              LedgerInsert(FeeLedgerRow(CHOOSE f \in found : TRUE, ctx[s].method,
                                        ctx[s].today))
       ELSE transactions_ledger' = transactions_ledger
  /\ pc' = [pc EXCEPT ![s] = "reload"]
  /\ UNCHANGED <<settings, members, membership_fees, reimbursements, cash_expenses,
                 products, productSeq, sales_orders, sales_order_items, bank_transactions,
                 page, ctx, selectedMonth, feeAmount, list, importData, wizard>>

(***************************************************************************)
(* Settings page (src/unnamed/part_003, Settings)                          *)
(***************************************************************************)
\* Settings.handleSave: upsert of the single settings row
Settings_handleSave(s, amount, ok) ==
  /\ page[s] = "settings" /\ pc[s] = "idle"
  /\ settings' = IF ok THEN amount ELSE settings
  /\ UNCHANGED <<members, membership_fees, reimbursements, cash_expenses, products,
                 productSeq, sales_orders, sales_order_items, bank_transactions,
                 transactions_ledger, local>>

(***************************************************************************)
(* Reimbursements page (src/src/pages/Reimbursements.tsx)                  *)
(***************************************************************************)
Categories == {"other"}
Projects == {"General"}

ReimbursementRow(id, member_id, purchase_date, amount, category, project) ==
  [id |-> id, member_id |-> member_id, purchase_date |-> purchase_date,
   amount |-> amount, category |-> category, project |-> project,
   payment_status |-> "unpaid", payment_method |-> "", payment_date |-> NULL]

\* the member is picked among the members that have not left;
\* member_id uuid NOT NULL REFERENCES members(id)
handleAddReimbursement(s, member_id, purchase_date, amount, category, project, ok) ==
  /\ page[s] = "reimbursements" /\ pc[s] = "idle"
  /\ Room(1)
  /\ \E m \in members : m.id = member_id /\ m.leave_date = NULL
  /\ IF ok
     THEN /\ reimbursements' = reimbursements \cup
               {ReimbursementRow(NewId(reimbursements), member_id, purchase_date,
                                 amount, category, project)}
          /\ pc' = [pc EXCEPT ![s] = "reload"]
     ELSE UNCHANGED <<reimbursements, pc>>
  /\ UNCHANGED <<settings, members, membership_fees, cash_expenses, products, productSeq,
                 sales_orders, sales_order_items, bank_transactions, transactions_ledger,
                 page, ctx, selectedMonth, feeAmount, list, importData, wizard>>

Reimbursements_handleMarkPaid_update(s, reimbursementId, paymentMethod, today, ok) ==
  /\ page[s] = "reimbursements" /\ pc[s] = "idle"
  /\ \E r \in list[s] : r.id = reimbursementId /\ r.payment_status = "unpaid"
  /\ IF ok
     THEN /\ reimbursements' = MarkPaidUpdate(reimbursements, reimbursementId,
                                              paymentMethod, today)
          /\ pc' = [pc EXCEPT ![s] = "reimbursement_ledger"]
          /\ ctx' = [ctx EXCEPT ![s] = [ctx0 EXCEPT !.id = reimbursementId,
                                                   !.method = paymentMethod,
                                                   !.today = today]]
     ELSE UNCHANGED <<reimbursements, pc, ctx>>
  /\ UNCHANGED <<settings, members, membership_fees, cash_expenses, products, productSeq,
                 sales_orders, sales_order_items, bank_transactions, transactions_ledger,
                 page, selectedMonth, feeAmount, list, importData, wizard>>

\* the ledger row of Reimbursements.handleMarkPaid
ReimbursementLedgerRow(reimb, paymentMethod, today) ==
  LedgerRow(today, "reimbursement_payment", -reimb.amount, reimb.member_id,
            reimb.project, reimb.category, paymentMethod, "reimbursement", reimb.id)

Reimbursements_handleMarkPaid_ledger(s, ok) ==
  /\ pc[s] = "reimbursement_ledger"
  /\ LET found == {r \in list[s] : r.id = ctx[s].id} IN
       IF found # {} /\ ok
       THEN transactions_ledger' =
              LedgerInsert(ReimbursementLedgerRow(CHOOSE r \in found : TRUE,
                                                  ctx[s].method, ctx[s].today))
       ELSE transactions_ledger' = transactions_ledger
  /\ pc' = [pc EXCEPT ![s] = "reload"]
  /\ UNCHANGED <<settings, members, membership_fees, reimbursements, cash_expenses,
                 products, productSeq, sales_orders, sales_order_items, bank_transactions,
                 page, ctx, selectedMonth, feeAmount, list, importData, wizard>>

(***************************************************************************)
(* Cash expenses page (src/unnamed/part_003, CashExpenses)                 *)
(***************************************************************************)
CashExpenseRow(id, expense_date, amount, category, project) ==
  [id |-> id, expense_date |-> expense_date, amount |-> amount,
   category |-> category, project |-> project]

handleAddExpense_insert(s, expense_date, amount, category, project, ok) ==
  /\ page[s] = "cash" /\ pc[s] = "idle"
  /\ Room(1)
  /\ IF ok
     THEN LET expenseData == CashExpenseRow(NewId(cash_expenses), expense_date, amount,
                                            category, project) IN
          /\ cash_expenses' = cash_expenses \cup {expenseData}
          /\ pc' = [pc EXCEPT ![s] = "expense_ledger"]
          /\ ctx' = [ctx EXCEPT ![s] = [ctx0 EXCEPT !.id = expenseData.id,
                                                   !.rows = <<expenseData>>]]
     ELSE UNCHANGED <<cash_expenses, pc, ctx>>
  /\ UNCHANGED <<settings, members, membership_fees, reimbursements, products, productSeq,
                 sales_orders, sales_order_items, bank_transactions, transactions_ledger,
                 page, selectedMonth, feeAmount, list, importData, wizard>>

\* the ledger row of CashExpenses.handleAddExpense, from formData and expenseData.id
ExpenseLedgerRow(formData, id) ==
  LedgerRow(formData.expense_date, "cash_expense", -formData.amount, NULL,
            formData.project, formData.category, "cash", "cash_expense", id)

handleAddExpense_ledger(s, ok) ==
  /\ pc[s] = "expense_ledger"
  /\ transactions_ledger' =
       IF ok THEN LedgerInsert(ExpenseLedgerRow(ctx[s].rows[1], ctx[s].id))
       ELSE transactions_ledger
  /\ pc' = [pc EXCEPT ![s] = "reload"]
  /\ UNCHANGED <<settings, members, membership_fees, reimbursements, cash_expenses,
                 products, productSeq, sales_orders, sales_order_items, bank_transactions,
                 page, ctx, selectedMonth, feeAmount, list, importData, wizard>>

(***************************************************************************)
(* Merch sales page (src/unnamed/part_004, MerchSales)                     *)
(***************************************************************************)
StockQuantities == {5}

ProductRow(id, unit_price, stock_quantity) ==
  [id |-> id, unit_price |-> unit_price, stock_quantity |-> stock_quantity]

handleAddProduct(s, unit_price, stock_quantity, ok) ==
  /\ page[s] = "merch" /\ pc[s] = "idle"
  /\ Room(1)
  /\ IF ok
     THEN /\ products' = products \cup {ProductRow(productSeq + 1, unit_price,
                                                   stock_quantity)}
          /\ productSeq' = productSeq + 1
          /\ pc' = [pc EXCEPT ![s] = "reload"]
     ELSE UNCHANGED <<products, productSeq, pc>>
  /\ UNCHANGED <<settings, members, membership_fees, reimbursements, cash_expenses,
                 sales_orders, sales_order_items, bank_transactions, transactions_ledger,
                 page, ctx, selectedMonth, feeAmount, list, importData, wizard>>

\* .delete().eq('id', id); sales_order_items.product_id is ON DELETE SET NULL
handleDeleteProduct(s, id, ok) ==
  /\ page[s] = "merch" /\ pc[s] = "idle"
  /\ \E p \in list[s] : p.id = id
  /\ IF ok
     THEN /\ products' = {p \in products : p.id # id}
          /\ sales_order_items' =
               {IF it.product_id = id THEN [it EXCEPT !.product_id = NULL] ELSE it
                : it \in sales_order_items}
          /\ pc' = [pc EXCEPT ![s] = "reload"]
     ELSE UNCHANGED <<products, sales_order_items, pc>>
  /\ UNCHANGED <<settings, members, membership_fees, reimbursements, cash_expenses,
                 productSeq, sales_orders, bank_transactions, transactions_ledger,
                 page, ctx, selectedMonth, feeAmount, list, importData, wizard>>

\* The sale forms that can be filled in from the loaded product list:
\* addItemToSale / updateSaleItem take product_id and unit_price from it.
SaleItems(loaded, quantities) ==
  {[product_id |-> p.id, quantity |-> q, unit_price |-> p.unit_price]
   : p \in loaded, q \in quantities}
SaleForms(loaded, quantities, itemCounts) ==
  {[member_id |-> m.id, order_date |-> d, payment_method |-> pm[1],
    payment_status |-> pm[2], items |-> its]
   : m \in {mb \in members : mb.leave_date = NULL}, d \in {20260120},
     pm \in {"unpaid", "cash"} \X {"unpaid", "paid"},
     its \in UNION {[1..n -> SaleItems(loaded, quantities)] : n \in itemCounts}}

\* saleForm.items.reduce((sum, item) => sum + item.quantity * item.unit_price, 0)
RECURSIVE SaleTotal(_)
SaleTotal(items) ==
  IF items = <<>> THEN 0
  ELSE Head(items).quantity * Head(items).unit_price + SaleTotal(Tail(items))

handleCreateSale_order(s, form, ok) ==
  /\ page[s] = "merch" /\ pc[s] = "idle"
  /\ Len(form.items) # 0
  /\ Room(1)
  /\ IF ok
     THEN LET orderData == [id |-> NewId(sales_orders), member_id |-> form.member_id,
                            order_date |-> form.order_date,
                            payment_method |-> form.payment_method,
                            payment_status |-> form.payment_status,
                            total_amount |-> SaleTotal(form.items)] IN
          /\ sales_orders' = sales_orders \cup {orderData}
          /\ pc' = [pc EXCEPT ![s] = "sale_items"]
          /\ ctx' = [ctx EXCEPT ![s] = [ctx0 EXCEPT !.id = orderData.id, !.form = form]]
     ELSE UNCHANGED <<sales_orders, pc, ctx>>
  /\ UNCHANGED <<settings, members, membership_fees, reimbursements, cash_expenses,
                 products, productSeq, sales_order_items, bank_transactions,
                 transactions_ledger, page, selectedMonth, feeAmount, list, importData,
                 wizard>>

RECURSIVE InsertItems(_, _, _)
InsertItems(table, order_id, items) ==
  IF items = <<>> THEN table
  ELSE InsertItems(table \cup {[id |-> NewId(table), order_id |-> order_id,
                                product_id |-> Head(items).product_id,
                                quantity |-> Head(items).quantity,
                                unit_price |-> Head(items).unit_price,
                                line_total |-> Head(items).quantity * Head(items).unit_price]},
                   order_id, Tail(items))

\* product_id REFERENCES products(id): the insert fails for a deleted product
handleCreateSale_items(s, ok) ==
  /\ pc[s] = "sale_items"
  /\ IF ok /\ \A i \in DOMAIN ctx[s].form.items :
                \E p \in products : p.id = ctx[s].form.items[i].product_id
     THEN /\ sales_order_items' = InsertItems(sales_order_items, ctx[s].id,
                                              ctx[s].form.items)
          /\ pc' = [pc EXCEPT ![s] = "sale_stock"]
          /\ ctx' = [ctx EXCEPT ![s].i = 1]
     ELSE /\ sales_order_items' = sales_order_items
          /\ pc' = [pc EXCEPT ![s] = "idle"]
          /\ ctx' = [ctx EXCEPT ![s] = ctx0]
  /\ UNCHANGED <<settings, members, membership_fees, reimbursements, cash_expenses,
                 products, productSeq, sales_orders, bank_transactions,
                 transactions_ledger, page, selectedMonth, feeAmount, list, importData,
                 wizard>>

\* one turn of the loop over saleForm.items:
\*   .update({ stock_quantity: product.stock_quantity - item.quantity }).eq('id', ...)
\* with product taken from the loaded product list
handleCreateSale_stock(s, ok) ==
  /\ pc[s] = "sale_stock"
  /\ LET item == ctx[s].form.items[ctx[s].i]
         found == {p \in list[s] : p.id = item.product_id} IN
       products' =
         IF found # {} /\ ok
         THEN {IF p.id = item.product_id
               THEN [p EXCEPT !.stock_quantity =
                       (CHOOSE f \in found : TRUE).stock_quantity - item.quantity]
               ELSE p : p \in products}
         ELSE products
  /\ IF ctx[s].i < Len(ctx[s].form.items)
     THEN /\ ctx' = [ctx EXCEPT ![s].i = @ + 1]
          /\ pc' = pc
     ELSE /\ ctx' = ctx
          /\ pc' = [pc EXCEPT ![s] = IF ctx[s].form.payment_status = "paid"
                                     THEN "sale_ledger" ELSE "reload"]
  /\ UNCHANGED <<settings, members, membership_fees, reimbursements, cash_expenses,
                 productSeq, sales_orders, sales_order_items, bank_transactions,
                 transactions_ledger, page, selectedMonth, feeAmount, list, importData,
                 wizard>>

\* the ledger row of MerchSales.handleCreateSale
SaleLedgerRow(form, order_id) ==
  LedgerRow(form.order_date, "merch_sale", SaleTotal(form.items), form.member_id,
            "General", "merch", form.payment_method, "sale_order", order_id)

handleCreateSale_ledger(s, ok) ==
  /\ pc[s] = "sale_ledger"
  /\ transactions_ledger' =
       IF ok THEN LedgerInsert(SaleLedgerRow(ctx[s].form, ctx[s].id))
       ELSE transactions_ledger
  /\ pc' = [pc EXCEPT ![s] = "reload"]
  /\ UNCHANGED <<settings, members, membership_fees, reimbursements, cash_expenses,
                 products, productSeq, sales_orders, sales_order_items, bank_transactions,
                 page, ctx, selectedMonth, feeAmount, list, importData, wizard>>

(***************************************************************************)
(* Bank import page (src/unnamed/part_003, BankImport)                     *)
(* A sheet is a grid: a sequence of rows, a row a sequence of cells, a     *)
(* cell a string (a tuple of characters), <<>> when blank.  A character    *)
(* outside ASCII is written by its code point ("u00e7").                   *)
(***************************************************************************)
hTarihSaat == <<"T", "a", "r", "i", "h", "/", "S", "a", "a", "t">>
hDate == <<"D", "a", "t", "e">>
hAciklama == <<"A", "u00e7", "u0131", "k", "l", "a", "m", "a">>
hIslemTutari == <<"u0130", "u015f", "l", "e", "m", " ", "T", "u", "t", "a", "r", "u0131", "*">>

IsbankHeader == <<hTarihSaat, hAciklama, hIslemTutari>>
BankRowA == <<<<"0", "4", "/", "0", "1", "/", "2", "0", "2", "6", "-", "1", "5", ":", "2", "9", ":", "0", "7">>, <<"a", "b">>, <<"1", "0", "0">>>>
BankRowB == <<<<"2", "0", "/", "0", "1", "/", "2", "0", "2", "6">>, <<"c", "d">>, <<"-", "7">>>>
BankRowC == <<<<"0", "4", "/", "0", "1", "/", "2", "0", "2", "6">>, <<"a", "-", "b">>, <<"-", "1", "0", "0">>>>

\* the uploaded files: name and grid
BankFileA == [name |-> "a.xlsx", grid |-> <<IsbankHeader, BankRowA>>]
BankFileB == [name |-> "b.xlsx", grid |-> << <<>>, IsbankHeader, BankRowA, BankRowB>>]
BankFileC == [name |-> "c.xlsx", grid |-> <<IsbankHeader, BankRowC>>]
BankFileD == [name |-> "d.xlsx", grid |-> <<IsbankHeader, BankRowA, BankRowA>>]
\* files none of which holds two rows with the same dedup key
BankFilesDistinct == {BankFileA, BankFileB, BankFileC}

Digits == {"0", "1", "2", "3", "4", "5", "6", "7", "8", "9"}
Letters == {"a", "b", "c", "d", "e", "f", "g", "h", "i", "j", "k", "l", "m", "n", "o",
            "p", "q", "r", "s", "t", "u", "v", "w", "x", "y", "z",
            "A", "B", "C", "D", "E", "F", "G", "H", "I", "J", "K", "L", "M", "N", "O",
            "P", "Q", "R", "S", "T", "U", "V", "W", "X", "Y", "Z"}
DigitValue(c) == CHOOSE n \in 0..9 : <<"0", "1", "2", "3", "4", "5", "6", "7", "8", "9">>[n + 1] = c
DigitChar(n) == <<"0", "1", "2", "3", "4", "5", "6", "7", "8", "9">>[n + 1]

\* the value of a string of digits
RECURSIVE DigitsValue(_)
DigitsValue(str) ==
  IF str = <<>> THEN 0
  ELSE 10 * DigitsValue(SubSeq(str, 1, Len(str) - 1)) + DigitValue(str[Len(str)])

\* parseFloat(String(cell || 0)) of a cell holding an integer, blank giving 0
parseFloat(cell) ==
  IF cell = <<>> THEN 0
  ELSE IF Head(cell) = "-" THEN -DigitsValue(Tail(cell))
  ELSE DigitsValue(cell)

\* `${n}` for an integer n
RECURSIVE NatToString(_)
NatToString(n) ==
  IF n < 10 THEN <<DigitChar(n)>>
  ELSE NatToString(n \div 10) \o <<DigitChar(n % 10)>>
NumberToString(n) == IF n < 0 THEN <<"-">> \o NatToString(-n) ELSE NatToString(n)

\* str.includes(sub)
Includes(str, sub) ==
  \E i \in 0..(Len(str) - Len(sub)) : SubSeq(str, i + 1, i + Len(sub)) = sub

\* str.split(sep) for a set of one-character separators
RECURSIVE Split(_, _)
Split(str, seps) ==
  IF \A i \in DOMAIN str : str[i] \notin seps THEN <<str>>
  ELSE LET k == CHOOSE i \in DOMAIN str :
                  str[i] \in seps /\ \A j \in 1..(i - 1) : str[j] \notin seps
       IN <<SubSeq(str, 1, k - 1)>> \o Split(SubSeq(str, k + 1, Len(str)), seps)

\* str.padStart(2, '0')
padStart2(str) == IF Len(str) < 2 THEN [i \in 1..(2 - Len(str)) |-> "0"] \o str ELSE str

\* a faulty variant of NormalizeDate that passes every value through, against
\* which C20 is tested
NormalizeDate_unchanged(txnDate) == txnDate

\* the date normalisation of handleImport ("Parse DD/MM/YYYY format")
NormalizeDate(txnDate) ==
  IF Includes(txnDate, <<"/">>)
  THEN LET datePart == Split(txnDate, {"-", " "})[1]
           parts == Split(datePart, {"/"})
       IN IF Len(parts) = 3 /\ Len(parts[1]) <= 2 /\ Len(parts[2]) <= 2
             /\ Len(parts[3]) = 4
          THEN parts[3] \o <<"-">> \o padStart2(parts[2]) \o <<"-">> \o padStart2(parts[1])
          ELSE txnDate
  ELSE txnDate

\* .replace(/[^a-zA-Z0-9]/g, '')
StripNonAlphanumeric(str) == SelectSeq(str, LAMBDA c : c \in Letters \cup Digits)

\* `${txnDate}-${description}-${amount}`.replace(/[^a-zA-Z0-9]/g, '')
import_hash(txnDate, description, amount) ==
  StripNonAlphanumeric(txnDate \o <<"-">> \o description \o <<"-">>
                       \o NumberToString(amount))

\* a date column takes 'yyyy-mm-dd'; NULL stands for a value it rejects
DateColumn(str) ==
  IF /\ Len(str) = 10 /\ str[5] = "-" /\ str[8] = "-"
     /\ \A i \in {1, 2, 3, 4, 6, 7, 9, 10} : str[i] \in Digits
  THEN DigitsValue(SubSeq(str, 1, 4)) * 10000 + DigitsValue(SubSeq(str, 6, 7)) * 100
       + DigitsValue(SubSeq(str, 9, 10))
  ELSE NULL

\* row[col], blank when the row has no such key
Cell(row, col) == IF col \in DOMAIN row THEN row[col] ELSE <<>>

\* the element of transactionsToImport made from one parsed row
TransactionOf(row, columnMapping, filename) ==
  LET txnDate == NormalizeDate(Cell(row, columnMapping.txn_date))
      description == Cell(row, columnMapping.description)
      amount == parseFloat(Cell(row, columnMapping.amount))
      direction == IF columnMapping.direction # <<>>
                   THEN (IF Cell(row, columnMapping.direction) # <<>>
                         THEN Cell(row, columnMapping.direction) ELSE <<"i", "n">>)
                   ELSE (IF amount >= 0 THEN <<"i", "n">> ELSE <<"o", "u", "t">>)
  IN [txn_date |-> DateColumn(txnDate), description |-> description,
      amount |-> Abs(amount),
      direction |-> IF Includes(toLowerCase(direction), <<"o", "u", "t">>) \/ amount < 0
                    THEN "out" ELSE "in",
      import_hash |-> import_hash(txnDate, description, amount),
      import_filename |-> filename]

transactionsToImport(w) ==
  [i \in DOMAIN w.parsedData |-> TransactionOf(w.parsedData[i], w.columnMapping, w.file)]

\* Math.min(jsonData.length, 25)
HeaderScanRows == 25
Min(a, b) == IF a < b THEN a ELSE b

\* row.includes(cell)
RowIncludes(row, cell) == \E i \in DOMAIN row : row[i] = cell

\* a faulty variant of headerRowIndex that takes row 0 for the header whatever
\* the sheet holds, against which C19 is tested
headerRowIndex_first(jsonData) == 0

\* the 0-based index of the header row ("Try to find known header row"),
\* 0 when no scanned row holds a marker
headerRowIndex(jsonData) ==
  LET scanned == {i \in 0..(Min(Len(jsonData), HeaderScanRows) - 1) :
                    RowIncludes(jsonData[i + 1], hTarihSaat)
                    \/ RowIncludes(jsonData[i + 1], hDate)}
  IN IF scanned = {} THEN 0 ELSE CHOOSE i \in scanned : \A j \in scanned : i <= j

\* the record made of one data row: obj[header] = row[index] for each
\* non-blank header, a later column of the same name winning
ParsedRowOf(headers, row) ==
  [h \in {headers[i] : i \in {j \in DOMAIN headers : headers[j] # <<>>}} |->
     LET k == CHOOSE i \in DOMAIN headers :
                headers[i] = h /\ \A j \in DOMAIN headers : headers[j] = h => j <= i
     IN IF k \in DOMAIN row THEN row[k] ELSE <<>>]

\* rows = dataRows.map(...).filter(r => Object.keys(r).length > 0)
parseRows(jsonData) ==
  LET idx == headerRowIndex(jsonData)
      headers == jsonData[idx + 1]
      dataRows == SubSeq(jsonData, idx + 2, Len(jsonData))
      objs == [i \in DOMAIN dataRows |-> ParsedRowOf(headers, dataRows[i])]
  IN SelectSeq(objs, LAMBDA r : DOMAIN r # {})

\* the auto-mapping of handleFileUpload: newMapping is kept when it maps the date
autoMapping(headers, columnMapping) ==
  LET newMapping == [columnMapping EXCEPT
        !.txn_date = IF RowIncludes(headers, hTarihSaat) THEN hTarihSaat ELSE @,
        !.description = IF RowIncludes(headers, hAciklama) THEN hAciklama ELSE @,
        !.amount = IF RowIncludes(headers, hIslemTutari) THEN hIslemTutari ELSE @]
  IN IF newMapping.txn_date # <<>> THEN newMapping ELSE columnMapping

\* a faulty variant of columnNamesOf that offers every header cell, against
\* which C24 is tested
columnNamesOf_all(headers) == headers

\* headers.filter(h => h && h.trim() !== '')
columnNamesOf(headers) ==
  SelectSeq(headers, LAMBDA h : \E i \in DOMAIN h : h[i] # " ")

BankImport_handleFileUpload(s, f) ==
  /\ page[s] = "bank" /\ pc[s] = "idle"
  /\ wizard[s].currentStep = 1
  /\ Len(f.grid) > 0
  /\ wizard' = [wizard EXCEPT ![s] =
       [currentStep |-> 2, file |-> f.name, parsedData |-> parseRows(f.grid),
        columnNames |-> columnNamesOf(f.grid[headerRowIndex(f.grid) + 1]),
        columnMapping |-> autoMapping(f.grid[headerRowIndex(f.grid) + 1],
                                      wizard[s].columnMapping)]]
  /\ UNCHANGED <<store, page, pc, ctx, selectedMonth, feeAmount, list, importData>>

\* a select of the mapping step: setColumnMapping({ ...columnMapping, [field]: col }),
\* col one of the column names or '' ("Select column")
setColumnMapping(s, field, col) ==
  /\ page[s] = "bank" /\ pc[s] = "idle"
  /\ wizard[s].currentStep = 2
  /\ col = <<>> \/ \E i \in DOMAIN wizard[s].columnNames : wizard[s].columnNames[i] = col
  /\ wizard' = [wizard EXCEPT ![s].columnMapping[field] = col]
  /\ UNCHANGED <<store, page, pc, ctx, selectedMonth, feeAmount, list, importData>>

\* a faulty variant of handleMappingNext that goes on to the preview whatever
\* is mapped, against which C22 is tested
handleMappingNext_unchecked(s) ==
  /\ page[s] = "bank" /\ pc[s] = "idle"
  /\ wizard[s].currentStep = 2
  /\ wizard' = [wizard EXCEPT ![s].currentStep = 3]
  /\ UNCHANGED <<store, page, pc, ctx, selectedMonth, feeAmount, list, importData>>

\* "Next: Preview" of the mapping step: alert('Please map at least Date,
\* Description, and Amount columns') and return when one of them is unmapped
handleMappingNext(s) ==
  /\ page[s] = "bank" /\ pc[s] = "idle"
  /\ wizard[s].currentStep = 2
  /\ wizard' = [wizard EXCEPT ![s].currentStep =
       IF \/ wizard[s].columnMapping.txn_date = <<>>
          \/ wizard[s].columnMapping.description = <<>>
          \/ wizard[s].columnMapping.amount = <<>>
       THEN 2 ELSE 3]
  /\ UNCHANGED <<store, page, pc, ctx, selectedMonth, feeAmount, list, importData>>

\* "Back" of the preview step: setCurrentStep(2)
backToMapping(s) ==
  /\ page[s] = "bank" /\ pc[s] = "idle"
  /\ wizard[s].currentStep = 3
  /\ wizard' = [wizard EXCEPT ![s].currentStep = 2]
  /\ UNCHANGED <<store, page, pc, ctx, selectedMonth, feeAmount, list, importData>>

\* offered by the mapping step and by the last step
resetImport(s) ==
  /\ page[s] = "bank" /\ pc[s] = "idle"
  /\ wizard[s].currentStep \in {2, 4}
  /\ wizard' = [wizard EXCEPT ![s] = wizard0]
  /\ UNCHANGED <<store, page, pc, ctx, selectedMonth, feeAmount, list, importData>>

\* a faulty variant of newTransactions that filters nothing out, against
\* which C6 is tested
newTransactions_unfiltered(txns) == txns

\* the select of the stored hashes and the filter of handleImport
newTransactions(txns) ==
  SelectSeq(txns, LAMBDA t :
    ~ \E b \in bank_transactions : b.import_hash = t.import_hash)

BankImport_handleImport_select(s) ==
  /\ page[s] = "bank" /\ pc[s] = "idle"
  /\ wizard[s].currentStep = 3
  /\ LET new == newTransactions(transactionsToImport(wizard[s])) IN
       /\ Room(Len(new))
       /\ IF new = <<>>
          THEN UNCHANGED <<pc, ctx>>
          ELSE /\ pc' = [pc EXCEPT ![s] = "bank_insert"]
               /\ ctx' = [ctx EXCEPT ![s] = [ctx0 EXCEPT !.rows = new]]
  /\ UNCHANGED <<store, page, selectedMonth, feeAmount, list, importData, wizard>>

\* insert of several bank rows in one request: txn_date is NOT NULL, and
\* idx_bank_transactions_import_hash is an index that is not UNIQUE
BankInsertAccepted(table, rows) == \A i \in DOMAIN rows : rows[i].txn_date # NULL

RECURSIVE InsertBank(_, _)
InsertBank(table, rows) ==
  IF rows = <<>> THEN table
  ELSE InsertBank(table \cup {[id |-> NewId(table)] @@ Head(rows)}, Tail(rows))

BankImport_handleImport_insert(s, ok) ==
  /\ pc[s] = "bank_insert"
  /\ IF ok /\ BankInsertAccepted(bank_transactions, ctx[s].rows)
     THEN /\ bank_transactions' = InsertBank(bank_transactions, ctx[s].rows)
          /\ pc' = [pc EXCEPT ![s] = "bank_ledger"]
          /\ ctx' = [ctx EXCEPT ![s].i = 1]
     ELSE /\ bank_transactions' = bank_transactions
          /\ pc' = [pc EXCEPT ![s] = "idle"]
          /\ ctx' = [ctx EXCEPT ![s] = ctx0]
  /\ UNCHANGED <<settings, members, membership_fees, reimbursements, cash_expenses,
                 products, productSeq, sales_orders, sales_order_items,
                 transactions_ledger, page, selectedMonth, feeAmount, list, importData,
                 wizard>>

\* a faulty variant of BankLedgerRow that posts the stored amount whatever the
\* direction, against which C1 is tested
BankLedgerRow_unsigned(txn) ==
  [id |-> Cardinality(transactions_ledger) + 1, txn_date |-> txn.txn_date,
   txn_type |-> "bank_transaction", amount |-> txn.amount, member_id |-> NULL,
   project |-> "General", category |-> "bank", source |-> "bank",
   reference_type |-> "bank_transaction", reference_id |-> NULL]

\* the ledger row of BankImport.handleImport: no reference_id is given
BankLedgerRow(txn) ==
  LedgerRow(txn.txn_date, "bank_transaction",
            IF txn.direction = "in" THEN txn.amount ELSE -txn.amount,
            NULL, "General", "bank", "bank", "bank_transaction", NULL)

\* one turn of the loop over newTransactions; after the last one
\* setCurrentStep(4) and loadTransactions()
BankImport_handleImport_ledger(s, ok) ==
  /\ pc[s] = "bank_ledger"
  /\ transactions_ledger' =
       IF ok THEN LedgerInsert(BankLedgerRow(ctx[s].rows[ctx[s].i]))
       ELSE transactions_ledger
  /\ IF ctx[s].i < Len(ctx[s].rows)
     THEN /\ ctx' = [ctx EXCEPT ![s].i = @ + 1]
          /\ UNCHANGED <<pc, wizard>>
     ELSE /\ ctx' = ctx
          /\ pc' = [pc EXCEPT ![s] = "reload"]
          /\ wizard' = [wizard EXCEPT ![s].currentStep = 4]
  /\ UNCHANGED <<settings, members, membership_fees, reimbursements, cash_expenses,
                 products, productSeq, sales_orders, sales_order_items, bank_transactions,
                 page, selectedMonth, feeAmount, list, importData>>

(***************************************************************************)
(* Specifications.  Each page's handlers form one group of steps: of       *)
(* session s, its store requests answered successfully (ok) or with an     *)
(* error, the admin's inputs drawn from the sets of the record in.         *)
(***************************************************************************)
NavSteps(s, pages) == \E p \in pages : Navigate(s, p)

MembersSteps(s, ok, in) ==
  \/ \E n \in in.names, d \in in.joinDates : handleAddMember(s, n, d, ok)
  \/ \E id \in Ids, t \in Todays : handleMarkLeft(s, id, t, ok)
  \/ \E f \in in.memberFiles, t \in Todays : Members_handleFileUpload(s, f, t)
  \/ Members_handleImport(s, ok)

FeesSteps(s, ok) ==
  \/ \E m \in Months : setSelectedMonth(s, m)
  \/ handleGenerateFees_select(s)
  \/ handleGenerateFees_upsert(s, ok)
  \/ \E id \in Ids, pm \in PaymentMethods, t \in Todays :
       Fees_handleMarkPaid_update(s, id, pm, t, ok)
  \/ Fees_handleMarkPaid_ledger(s, ok)

SettingsSteps(s, ok, in) == \E a \in in.feeAmounts : Settings_handleSave(s, a, ok)

ReimbursementsSteps(s, ok, in) ==
  \/ \E m \in Ids, d \in Todays, a \in in.amounts, c \in Categories, pr \in Projects :
       handleAddReimbursement(s, m, d, a, c, pr, ok)
  \/ \E id \in Ids, pm \in PaymentMethods, t \in Todays :
       Reimbursements_handleMarkPaid_update(s, id, pm, t, ok)
  \/ Reimbursements_handleMarkPaid_ledger(s, ok)

ExpensesSteps(s, ok, in) ==
  \/ \E d \in Todays, a \in in.amounts, c \in Categories, pr \in Projects :
       handleAddExpense_insert(s, d, a, c, pr, ok)
  \/ handleAddExpense_ledger(s, ok)

SalesSteps(s, ok, in) ==
  \/ \E u \in in.unitPrices, q \in StockQuantities : handleAddProduct(s, u, q, ok)
  \/ \E id \in Ids : handleDeleteProduct(s, id, ok)
  \/ \E form \in (IF page[s] = "merch"
                  THEN SaleForms(list[s], in.quantities, in.itemCounts) ELSE {}) :
       handleCreateSale_order(s, form, ok)
  \/ handleCreateSale_items(s, ok)
  \/ handleCreateSale_stock(s, ok)
  \/ handleCreateSale_ledger(s, ok)

BankSteps(s, ok, in) ==
  \/ \E f \in in.bankFiles : BankImport_handleFileUpload(s, f)
  \/ handleMappingNext(s)
  \/ backToMapping(s)
  \/ resetImport(s)
  \/ BankImport_handleImport_select(s)
  \/ BankImport_handleImport_insert(s, ok)
  \/ BankImport_handleImport_ledger(s, ok)

ReportsSteps(s, in) ==
  \/ \E tab \in ReportTabs : setActiveTab(s, tab)
  \/ \E r \in in.dateRanges : setDateRange(s, r)

\* ---- Spec: one admin session, every store request answered successfully,
\*      every page of the application
Inputs ==
  [names |-> {<<"A", "n">>}, joinDates |-> {20260105},
   memberFiles |-> {<<RawMember(<<"b", "o">>, <<>>, 20260105),
                      RawMember(<<>>, <<"a", "n">>, NULL)>>},
   feeAmounts |-> {100}, amounts |-> {50}, unitPrices |-> {50},
   quantities |-> {2}, itemCounts |-> {1, 2},
   bankFiles |-> {BankFileA, BankFileB, BankFileD},
   dateRanges |-> {DefaultDateRange}]

Next ==
  \/ NavSteps(1, Pages)
  \/ reload(1)
  \/ MembersSteps(1, TRUE, Inputs)
  \/ FeesSteps(1, TRUE)
  \/ SettingsSteps(1, TRUE, Inputs)
  \/ ReimbursementsSteps(1, TRUE, Inputs)
  \/ ExpensesSteps(1, TRUE, Inputs)
  \/ SalesSteps(1, TRUE, Inputs)
  \/ BankSteps(1, TRUE, Inputs)
  \/ ReportsSteps(1, Inputs)
Spec == Init /\ [][Next]_vars

\* ---- SpecFail: one admin session, any store request may be answered with an
\*      error
\* the inputs of Spec, a sale carrying one item line
FailInputs == [Inputs EXCEPT !.itemCounts = {1}]
NextFail ==
  \/ NavSteps(1, Pages)
  \/ reload(1)
  \/ \E ok \in BOOLEAN :
       \/ MembersSteps(1, ok, FailInputs)
       \/ FeesSteps(1, ok)
       \/ SettingsSteps(1, ok, FailInputs)
       \/ ReimbursementsSteps(1, ok, FailInputs)
       \/ ExpensesSteps(1, ok, FailInputs)
       \/ SalesSteps(1, ok, FailInputs)
       \/ BankSteps(1, ok, FailInputs)
SpecFail == Init /\ [][NextFail]_vars

\* ---- SpecFeesRace: two sessions on the fees page; session 1 also enters the
\*      members and saves the settings
NextFeesRace ==
  \/ NavSteps(1, {"members", "fees", "settings"})
  \/ NavSteps(2, {"dashboard", "fees"})
  \/ \E n \in Inputs.names, d \in Inputs.joinDates : handleAddMember(1, n, d, TRUE)
  \/ SettingsSteps(1, TRUE, Inputs)
  \/ \E s \in Sessions :
       \/ reload(s)
       \/ FeesSteps(s, TRUE)
SpecFeesRace == Init /\ [][NextFeesRace]_vars

\* ---- SpecBankRace: two sessions on the bank import page, importing files
\*      none of which holds a dedup key twice
BankRaceInputs == [Inputs EXCEPT !.bankFiles = BankFilesDistinct]
NextBankRace ==
  \E s \in Sessions :
    \/ NavSteps(s, {"dashboard", "bank"})
    \/ reload(s)
    \/ BankSteps(s, TRUE, BankRaceInputs)
SpecBankRace == Init /\ [][NextBankRace]_vars

\* ---- SpecMembersRace: two sessions importing member files, none of which
\*      holds a name twice
MembersImportSteps(s, ok, in) ==
  \/ \E f \in in.memberFiles, t \in Todays : Members_handleFileUpload(s, f, t)
  \/ Members_handleImport(s, ok)
MembersRaceInputs ==
  [Inputs EXCEPT !.memberFiles =
     { <<RawMember(<<"A", "n">>, <<>>, 20260105)>>,
       <<RawMember(<<"b", "o">>, <<>>, 20260105),
         RawMember(<<>>, <<"a", "n">>, NULL)>> }]
NextMembersRace ==
  \E s \in Sessions :
    \/ NavSteps(s, {"dashboard", "members"})
    \/ reload(s)
    \/ MembersImportSteps(s, TRUE, MembersRaceInputs)
SpecMembersRace == Init /\ [][NextMembersRace]_vars

\* One session that registers members with join dates before and inside
\* January 2026, marks them as left and works on the fees page.
GenerateInputs ==
  [Inputs EXCEPT !.names = {<<"A", "n">>, <<"b", "o">>},
                 !.joinDates = {20251215, 20260105}]
NextGenerate ==
  \/ NavSteps(1, {"members", "fees"})
  \/ reload(1)
  \/ \E n \in GenerateInputs.names, d \in GenerateInputs.joinDates :
       handleAddMember(1, n, d, TRUE)
  \/ \E id \in Ids, t \in Todays : handleMarkLeft(1, id, t, TRUE)
  \/ FeesSteps(1, TRUE)
SpecGenerate == Init /\ [][NextGenerate]_vars

\* One session on the members page; among the uploaded files is one that holds
\* the same name twice, in different case.
ImportInputs ==
  [Inputs EXCEPT !.memberFiles =
     { <<RawMember(<<"A", "n">>, <<>>, 20260105),
         RawMember(<<>>, <<"a", "n">>, NULL)>>,
       <<RawMember(<<"b", "o">>, <<>>, 20260105),
         RawMember(<<>>, <<"a", "n">>, NULL)>> }]
NextImport ==
  \/ NavSteps(1, {"dashboard", "members"})
  \/ reload(1)
  \/ MembersSteps(1, TRUE, ImportInputs)
SpecImport == Init /\ [][NextImport]_vars

\* One session that records cash expenses of December 2025 and January 2026
\* for two projects, imports bank files and reads the reports over the
\* default date range and over a range that starts in December 2025.
ReportInputs ==
  [Inputs EXCEPT !.bankFiles = {BankFileA, BankFileB},
                 !.dateRanges = {DefaultDateRange,
                                 [DefaultDateRange EXCEPT !.start = 20251201]}]
NextReports ==
  \/ NavSteps(1, {"cash", "bank", "reports"})
  \/ reload(1)
  \/ \E d \in {20251210, 20260120}, a \in ReportInputs.amounts, c \in Categories,
        pr \in {"General", "Corsa"} : handleAddExpense_insert(1, d, a, c, pr, TRUE)
  \/ handleAddExpense_ledger(1, TRUE)
  \/ BankSteps(1, TRUE, ReportInputs)
  \/ ReportsSteps(1, ReportInputs)
SpecReports == Init /\ [][NextReports]_vars

\* One session on the bank import page that uploads sheets whose header row
\* is at index 0, 1 or 3, is marked by 'Date', is not marked at all, lies
\* beyond the scanned rows, or is preceded by another marked row.
hTutar == <<"T", "u", "t", "a", "r">>
BlankRows(n) == [i \in 1..n |-> <<>>]
HeaderFiles ==
  {BankFileA, BankFileB, BankFileD,
   [name |-> "e.xlsx", grid |-> BlankRows(3) \o <<IsbankHeader, BankRowA>>],
   [name |-> "f.xlsx", grid |-> <<<<hDate, hAciklama, hTutar>>, BankRowB>>],
   [name |-> "g.xlsx", grid |-> <<<<hAciklama, hTutar>>, <<<<"a", "b">>, <<"7">>>>>>],
   [name |-> "h.xlsx", grid |-> BlankRows(HeaderScanRows) \o <<IsbankHeader, BankRowA>>],
   [name |-> "i.xlsx", grid |-> <<<<hDate>>, IsbankHeader, BankRowA>>]}
NextHeader ==
  \/ NavSteps(1, {"dashboard", "bank"})
  \/ reload(1)
  \/ BankSteps(1, TRUE, [Inputs EXCEPT !.bankFiles = HeaderFiles])
SpecHeader == Init /\ [][NextHeader]_vars

\* One session on the bank import page that uploads sheets whose date cells
\* are written day/month/year with and without a time and with one-digit day
\* and month, as ISO dates, year first, with a two-digit year, with four
\* segments, with a '-' before the first '/', with letters and with an empty
\* day.
DateFiles ==
  {BankFileA,
   [name |-> "j.xlsx", grid |->
      <<IsbankHeader,
        <<<<"3", "1", "/", "1", "2", "/", "2", "0", "2", "5">>, <<"a", "b">>, <<"7">>>>,
        <<<<"2", "0", "2", "6", "-", "0", "1", "-", "0", "4">>, <<"a", "b">>, <<"7">>>>>>],
   [name |-> "k.xlsx", grid |->
      <<IsbankHeader,
        <<<<"4", "/", "1", "/", "2", "0", "2", "6">>, <<"a", "b">>, <<"7">>>>,
        <<<<"0", "4", "/", "0", "1", "/", "2", "0", "2", "6", " ", "1", "5", ":", "2", "9">>, <<"a", "b">>, <<"7">>>>>>],
   [name |-> "l.xlsx", grid |->
      <<IsbankHeader,
        <<<<"2", "0", "2", "6", "/", "0", "1", "/", "0", "4">>, <<"a", "b">>, <<"7">>>>,
        <<<<"0", "4", "/", "0", "1", "/", "2", "6">>, <<"a", "b">>, <<"7">>>>>>],
   [name |-> "m.xlsx", grid |->
      <<IsbankHeader,
        <<<<"1", "/", "2", "/", "2", "0", "2", "6", "/", "5">>, <<"a", "b">>, <<"7">>>>,
        <<<<"0", "4", "-", "0", "1", "/", "2", "0", "2", "6">>, <<"a", "b">>, <<"7">>>>>>],
   [name |-> "n.xlsx", grid |->
      <<IsbankHeader,
        <<<<"a", "b", "/", "c", "d", "/", "e", "f", "g", "h">>, <<"a", "b">>, <<"7">>>>,
        <<<<"/", "1", "/", "2", "0", "2", "6">>, <<"a", "b">>, <<"7">>>>>>]}
NextDates ==
  \/ NavSteps(1, {"dashboard", "bank"})
  \/ reload(1)
  \/ BankSteps(1, TRUE, [Inputs EXCEPT !.bankFiles = DateFiles])
SpecDates == Init /\ [][NextDates]_vars

\* One session on the bank import page that uploads sheets with a direction
\* column, with a blank row between the header and the data or with blank
\* cells in the header row, and sets or clears the mappings of the mapping
\* step by hand.
hYon == <<"Y", "u00f6", "n">>
MappingFiles ==
  LET header == <<hTarihSaat, hAciklama, hIslemTutari, hYon>> IN
  {[name |-> "p.xlsx", grid |->
      <<header,
        <<<<"0", "5", "/", "0", "1", "/", "2", "0", "2", "6">>, <<"e", "f">>, <<"-", "7">>, <<"i", "n">>>>,
        <<<<"0", "6", "/", "0", "1", "/", "2", "0", "2", "6">>, <<"g", "h">>, <<"1", "0", "0">>, <<"O", "U", "T">>>>>>],
   [name |-> "q.xlsx", grid |->
      <<header,
        <<<<"0", "7", "/", "0", "1", "/", "2", "0", "2", "6">>, <<"i", "j">>, <<"5", "0">>, <<>>>>,
        <<<<"0", "8", "/", "0", "1", "/", "2", "0", "2", "6">>, <<"k", "l">>, <<"-", "9">>, <<"P", "a", "y", "o", "u", "t">>>>>>],
   [name |-> "r.xlsx", grid |-> <<IsbankHeader, <<>>, BankRowB>>],
   [name |-> "s.xlsx", grid |->
      <<<<hTarihSaat, <<>>, hAciklama, <<" ">>, hIslemTutari>>,
        <<<<"0", "9", "/", "0", "1", "/", "2", "0", "2", "6">>, <<"y">>, <<"m", "n">>, <<"z">>, <<"3">>>>>>],
   [name |-> "t.xlsx", grid |->
      <<<<hAciklama, <<>>, hTutar>>, <<<<"o", "p">>, <<"y">>, <<"4">>>>>>]}
\* the choices made in the selects of the mapping step
MappingSteps(s) ==
  \E c \in ({"txn_date"} \X {<<>>, hTarihSaat}) \cup ({"description"} \X {<<>>, hAciklama})
           \cup ({"amount"} \X {<<>>, hIslemTutari})
           \cup ({"direction"} \X {<<>>, hYon, hAciklama}) :
     setColumnMapping(s, c[1], c[2])
NextMapping ==
  \/ NavSteps(1, {"dashboard", "bank"})
  \/ reload(1)
  \/ BankSteps(1, TRUE, [Inputs EXCEPT !.bankFiles = MappingFiles])
  \/ MappingSteps(1)
SpecMapping == Init /\ [][NextMapping]_vars

\* Two sessions on the merchandise page, each selling from the product list
\* it has loaded; session 1 also enters the members.
NextSalesRace ==
  \/ NavSteps(1, {"members", "merch"})
  \/ NavSteps(2, {"dashboard", "merch"})
  \/ \E n \in Inputs.names, d \in Inputs.joinDates : handleAddMember(1, n, d, TRUE)
  \/ \E s \in Sessions :
       \/ reload(s)
       \/ SalesSteps(s, TRUE, Inputs)
SpecSalesRace == Init /\ [][NextSalesRace]_vars

\* One session that records reimbursements and cash expenses with the
\* amounts the number fields of the forms take: the initial 0, a negative and
\* a positive one.
NextAmounts ==
  \/ NavSteps(1, {"members", "reimbursements", "cash"})
  \/ reload(1)
  \/ \E n \in Inputs.names, d \in Inputs.joinDates : handleAddMember(1, n, d, TRUE)
  \/ ReimbursementsSteps(1, TRUE, [Inputs EXCEPT !.amounts = {-5, 0, 50}])
  \/ ExpensesSteps(1, TRUE, [Inputs EXCEPT !.amounts = {-5, 0, 50}])
SpecAmounts == Init /\ [][NextAmounts]_vars

(***************************************************************************)
(* The claims of the specification about the ledger, the bank import, the  *)
(* member import and the fee generator.                                    *)
(***************************************************************************)
LedgerEntriesOf(reference_type, reference_id) ==
  {l \in transactions_ledger :
     l.reference_type = reference_type /\ l.reference_id = reference_id}
BankLedger == {l \in transactions_ledger : l.txn_type = "bank_transaction"}
SignedAmount(b) == IF b.direction = "in" THEN b.amount ELSE -b.amount
\* the bank ledger entries that record the stored transaction b: they carry
\* no reference_id, so they are told by date and signed amount
BankEntriesOf(b) ==
  {l \in BankLedger : l.txn_date = b.txn_date /\ l.amount = SignedAmount(b)}
\* session 1 runs no handler, or only the last load of one is left to do
Settled == pc[1] \in {"idle", "reload"}

\* C1: the amount of every ledger entry is determined by its kind and its
\* source record: minus the amount of the cash expense or of the reimbursement,
\* plus the amount of the fee or the total of the sales order, and for a bank
\* transaction plus the stored amount for direction 'in', minus it for 'out'.
C1_AmountSignByKind ==
  \A l \in transactions_ledger :
    /\ l.txn_type \in {"cash_expense", "reimbursement_payment",
                       "membership_fee_payment", "merch_sale", "bank_transaction"}
    /\ l.txn_type = "cash_expense" =>
         \E e \in cash_expenses : e.id = l.reference_id /\ l.amount = -e.amount
    /\ l.txn_type = "reimbursement_payment" =>
         \E r \in reimbursements : r.id = l.reference_id /\ l.amount = -r.amount
    /\ l.txn_type = "membership_fee_payment" =>
         \E f \in membership_fees : f.id = l.reference_id /\ l.amount = f.amount
    /\ l.txn_type = "merch_sale" =>
         \E o \in sales_orders : o.id = l.reference_id /\ l.amount = o.total_amount
    /\ l.txn_type = "bank_transaction" =>
         \E b \in bank_transactions :
           /\ b.txn_date = l.txn_date
           /\ l.amount = IF b.direction = "in" THEN b.amount ELSE -b.amount

\* C1 witness: an outgoing bank transaction and a cash expense have been posted
C1_Witness ==
  /\ \E l \in transactions_ledger : l.txn_type = "bank_transaction" /\ l.amount < 0
  /\ \E l \in transactions_ledger : l.txn_type = "cash_expense" /\ l.amount < 0
  /\ \E b \in bank_transactions : b.direction = "out" /\ b.amount > 0
  /\ \E b \in bank_transactions : b.direction = "in" /\ b.amount > 0

\* C2: with one session whose requests all succeed, once a handler has done its
\* writes every paid fee, paid reimbursement, cash expense, paid sales order
\* and stored bank transaction has exactly one ledger entry, and every unpaid
\* fee, reimbursement and sales order has none.
C2_ExactlyOneEntry ==
  Settled =>
    /\ \A f \in membership_fees :
         Cardinality(LedgerEntriesOf("membership_fee", f.id))
           = IF f.payment_status = "paid" THEN 1 ELSE 0
    /\ \A r \in reimbursements :
         Cardinality(LedgerEntriesOf("reimbursement", r.id))
           = IF r.payment_status = "paid" THEN 1 ELSE 0
    /\ \A e \in cash_expenses : Cardinality(LedgerEntriesOf("cash_expense", e.id)) = 1
    /\ \A o \in sales_orders :
         Cardinality(LedgerEntriesOf("sale_order", o.id))
           = IF o.payment_status = "paid" THEN 1 ELSE 0
    /\ \A b \in bank_transactions :
         Cardinality(BankEntriesOf(b))
           = Cardinality({x \in bank_transactions :
                            x.txn_date = b.txn_date /\ SignedAmount(x) = SignedAmount(b)})
    /\ Cardinality(BankLedger) = Cardinality(bank_transactions)

\* C2 witness: a paid fee and a cash expense, each with its entry, the session idle
C2_Witness ==
  /\ pc[1] = "idle"
  /\ \E f \in membership_fees :
       f.payment_status = "paid" /\ LedgerEntriesOf("membership_fee", f.id) # {}
  /\ \E e \in cash_expenses : LedgerEntriesOf("cash_expense", e.id) # {}

\* C3: even when store requests fail, once a handler has ended no paid fee,
\* paid reimbursement, cash expense, paid sales order or stored bank
\* transaction is without a ledger entry.
C3_FailOrSucceedTogether ==
  Settled =>
    /\ \A f \in membership_fees :
         f.payment_status = "paid" => LedgerEntriesOf("membership_fee", f.id) # {}
    /\ \A r \in reimbursements :
         r.payment_status = "paid" => LedgerEntriesOf("reimbursement", r.id) # {}
    /\ \A e \in cash_expenses : LedgerEntriesOf("cash_expense", e.id) # {}
    /\ \A o \in sales_orders :
         o.payment_status = "paid" => LedgerEntriesOf("sale_order", o.id) # {}
    /\ \A b \in bank_transactions : BankEntriesOf(b) # {}

\* C4: whatever two sessions do, a fee or a reimbursement has at most one
\* ledger entry: no two entries share (reference_type, reference_id).
C4_OneEntryPerReference ==
  \A l1, l2 \in transactions_ledger :
    (/\ l1.reference_type \in {"membership_fee", "reimbursement"}
     /\ l1.reference_type = l2.reference_type
     /\ l1.reference_id = l2.reference_id) => l1 = l2

\* C5: no step of any handler, succeeding or failing, removes or changes a
\* ledger row: every row of the ledger is in the ledger after the step.
C5_LedgerAppendOnly ==
  [][\A l \in transactions_ledger : l \in transactions_ledger']_vars

\* C5 witness: an entry has been posted to a ledger that held entries already
C5_Witness ==
  \E l1, l2 \in transactions_ledger : l1.id < l2.id /\ l1.txn_type # l2.txn_type

\* the file loaded in the wizard of session s is ready to be imported and
\* every dedup key of it is stored
AllStored(s) ==
  /\ page[s] = "bank" /\ pc[s] = "idle" /\ wizard[s].currentStep = 3
  /\ wizard[s].parsedData # <<>>
  /\ \A i \in DOMAIN wizard[s].parsedData :
       \E b \in bank_transactions :
         b.import_hash = transactionsToImport(wizard[s])[i].import_hash

C7_UniqueImportHash ==
  \A b1, b2 \in bank_transactions : b1.import_hash = b2.import_hash => b1 = b2

\* C8: whatever two sessions importing member files do, no two stored members
\* have names that are equal ignoring case.
C8_UniqueNameIgnoringCase ==
  \A m1, m2 \in members :
    toLowerCase(m1.full_name) = toLowerCase(m2.full_name) => m1 = m2

\* C9: whatever two sessions do, there is at most one fee row per
\* (member_id, fee_month).
C9_OneFeePerMemberMonth ==
  \A f1, f2 \in membership_fees :
    (f1.member_id = f2.member_id /\ f1.fee_month = f2.fee_month) => f1 = f2

\* C9 witness: session 2 has run the upsert with an empty list loaded while the
\* month had a fee, generated by session 1 with another fee amount
C9_Witness ==
  /\ page[2] = "fees" /\ pc[2] = "reload" /\ ctx[2] = ctx0 /\ list[2] = {}
  /\ \E f \in membership_fees :
       f.fee_month = MonthStartDate(selectedMonth[2]) /\ f.amount # feeAmount[2]

\* C10: the upsert of handleGenerateFees leaves every existing fee row as it
\* is, and when every selected member has a fee for the month it leaves the
\* whole table as it is.
C10_GenerateKeepsExisting ==
  [][\A s \in Sessions :
       (pc[s] = "generate_upsert" /\ pc'[s] # "generate_upsert") =>
         /\ \A f \in membership_fees : f \in membership_fees'
         /\ (\A i \in DOMAIN ctx[s].ids :
               \E f \in membership_fees :
                 /\ f.member_id = ctx[s].ids[i]
                 /\ f.fee_month = MonthStartDate(selectedMonth[s]))
            => membership_fees' = membership_fees]_vars

\* C10 witness: the upsert has run with a fee amount other than the amount of
\* a fee of the month that is paid
C10_Witness ==
  /\ page[1] = "fees" /\ pc[1] = "reload" /\ ctx[1] = ctx0
  /\ \E f \in membership_fees :
       /\ f.fee_month = MonthStartDate(selectedMonth[1])
       /\ f.payment_status = "paid" /\ f.amount # feeAmount[1]

\* the last day of month m is not after day 31 of m
MonthEndDate(m) == m * 100 + 31
\* the members active at some point of month m
ActiveDuringMonth(m) ==
  {mb \in members : /\ mb.join_date <= MonthEndDate(m)
                    /\ (mb.leave_date = NULL \/ mb.leave_date >= MonthStartDate(m))}

\* C11: when handleGenerateFees has stored its rows, every member that was
\* active at some point of the selected month (join_date on or before its last
\* day, leave_date null or on or after its first day) has a fee row for the
\* month, and every row the run created belongs to such a member.
C11_FeesForActiveDuringMonth ==
  [][pc[1] = "generate_upsert" /\ pc'[1] = "reload" =>
       LET month == selectedMonth[1] IN
       /\ \A mb \in ActiveDuringMonth(month) :
            \E f \in membership_fees' : /\ f.member_id = mb.id
                                       /\ f.fee_month = MonthStartDate(month)
       /\ \A f \in membership_fees' \ membership_fees :
            \E mb \in ActiveDuringMonth(month) : mb.id = f.member_id]_vars

\* a successful run of Members.handleImport by session 1
ImportStored == importData[1] # <<>> /\ importData'[1] = <<>> /\ members' # members
SameNameIgnoringCase(a, b) == toLowerCase(a) = toLowerCase(b)

\* C12: a member import inserts no record whose full_name equals the
\* full_name of an existing member ignoring case, and inserts every record
\* whose name matches no existing member.
C12_ImportSkipsExistingNames ==
  [][ImportStored =>
       /\ \A n \in members' \ members : \A m \in members :
            ~SameNameIgnoringCase(n.full_name, m.full_name)
       /\ \A i \in DOMAIN importData[1] :
            (\A m \in members : ~SameNameIgnoringCase(importData[1][i].full_name,
                                                      m.full_name))
            => \E n \in members' \ members :
                 n.full_name = importData[1][i].full_name]_vars
\* "An" was stored first; an import of the file with "bo" and "an" has stored
\* "bo" and dropped "an"
C12_Witness ==
  /\ \E a, b \in members : /\ a.full_name = <<"A", "n">>
                            /\ b.full_name = <<"b", "o">>
                            /\ a.id < b.id
  /\ \A m \in members : m.full_name # <<"a", "n">>

\* C13: one member import never inserts two members whose names are equal
\* ignoring case; of several records of the file with the same name only the
\* first is inserted.
C13_FirstOccurrenceWins ==
  [][ImportStored =>
       \A n1, n2 \in members' \ members :
         SameNameIgnoringCase(n1.full_name, n2.full_name) => n1 = n2]_vars

\* the unpaid rows of a table that belong to member m
UnpaidOf(rows, m) == {x \in rows : x.member_id = m.id /\ x.payment_status = "unpaid"}

\* C14: in the member balances report, for every member, fees_owed is the sum
\* of the amounts of the member's unpaid fees, sales_owed the sum of
\* total_amount of the member's unpaid sales orders, reimb_owed the sum of the
\* amounts of the member's unpaid reimbursements, and net_balance is
\* fees_owed + sales_owed - reimb_owed.
C14_MemberBalances ==
  page[1] = "reports" /\ list[1].activeTab = "balances" =>
    LET ms == InIdOrder(members) IN
    /\ Len(list[1].data) = Len(ms)
    /\ \A i \in DOMAIN ms :
         LET b == list[1].data[i] IN
         /\ b.member_name = ms[i].full_name
         /\ b.fees_owed = SumOf(UnpaidOf(membership_fees, ms[i]), "amount")
         /\ b.sales_owed = SumOf(UnpaidOf(sales_orders, ms[i]), "total_amount")
         /\ b.reimb_owed = SumOf(UnpaidOf(reimbursements, ms[i]), "amount")
         /\ b.net_balance = b.fees_owed + b.sales_owed - b.reimb_owed
\* the report shows a member with one unpaid fee of 200 and one unpaid
\* reimbursement of 50 and a net balance of 150
C14_Witness ==
  /\ page[1] = "reports" /\ list[1].activeTab = "balances"
  /\ \E i \in DOMAIN list[1].data :
       /\ list[1].data[i].fees_owed = 200
       /\ list[1].data[i].reimb_owed = 50
       /\ list[1].data[i].net_balance = 150

\* the ledger entries of the date range of the report shown
ReportEntries == LedgerInRange(list[1].dateRange)
SameGroup(t, row) == t.category = row.category /\ t.project = row.project

\* C15: the P&L report has one row per pair (category, project) occurring
\* among the ledger entries of the date range, so that two entries are
\* counted in the same row exactly when they agree in category and in
\* project; the income of a row is the sum of the positive amounts of its
\* entries and its expense the sum of the absolute values of the negative ones.
C15_PLGroups ==
  page[1] = "reports" /\ list[1].activeTab = "pl" =>
    LET data == list[1].data IN
    /\ \A t \in ReportEntries : \E i \in DOMAIN data : SameGroup(t, data[i])
    /\ \A i, j \in DOMAIN data : SameGroup(data[i], data[j]) => i = j
    /\ \A i \in DOMAIN data :
         LET group == {t \in ReportEntries : SameGroup(t, data[i])} IN
         /\ group # {}
         /\ data[i].income = SumOf({t \in group : t.amount > 0}, "amount")
         /\ data[i].expense = -SumOf({t \in group : t.amount < 0}, "amount")
\* the report shows two rows of one category and different projects next to
\* a row with income
C15_Witness ==
  /\ page[1] = "reports" /\ list[1].activeTab = "pl"
  /\ \E i, j \in DOMAIN list[1].data :
       /\ list[1].data[i].category = list[1].data[j].category
       /\ list[1].data[i].project # list[1].data[j].project
       /\ list[1].data[i].expense > 0 /\ list[1].data[j].expense > 0
  /\ \E i \in DOMAIN list[1].data : list[1].data[i].income > 0

\* C16: the cashflow report has one row per calendar month occurring among
\* the ledger entries of the date range, in chronological order of month,
\* with inflow the sum of the positive amounts of the month and outflow the
\* sum of the absolute values of its negative amounts.
C16_CashflowByMonth ==
  page[1] = "reports" /\ list[1].activeTab = "cashflow" =>
    LET data == list[1].data IN
    /\ {data[i].month : i \in DOMAIN data}
         = {t.txn_date \div 100 : t \in ReportEntries}
    /\ \A i, j \in DOMAIN data : i < j => data[i].month < data[j].month
    /\ \A i \in DOMAIN data :
         LET ofMonth == {t \in ReportEntries : t.txn_date \div 100 = data[i].month} IN
         /\ data[i].inflow = SumOf({t \in ofMonth : t.amount > 0}, "amount")
         /\ data[i].outflow = -SumOf({t \in ofMonth : t.amount < 0}, "amount")
\* the report shows two months, and an entry of the later month was inserted
\* into the ledger before an entry of the earlier month
C16_Witness ==
  /\ page[1] = "reports" /\ list[1].activeTab = "cashflow"
  /\ Len(list[1].data) >= 2
  /\ \E t, u \in ReportEntries : t.id < u.id /\ t.txn_date \div 100 > u.txn_date \div 100
  /\ \E i \in DOMAIN list[1].data :
       list[1].data[i].inflow > 0 /\ list[1].data[i].outflow > 0

\* the stored items of sales order o
ItemsOf(o) == {it \in sales_order_items : it.order_id = o.id}

\* C17: whenever no handler is running, also after a createSale one of whose
\* requests failed, every stored sales order has at least one stored item,
\* every item's line_total is quantity x unit_price, and the order's
\* total_amount is the sum of line_total over its items.
C17_OrderHasItemsAndTotal ==
  Settled =>
    \A o \in sales_orders :
      /\ ItemsOf(o) # {}
      /\ \A it \in ItemsOf(o) : it.line_total = it.quantity * it.unit_price
      /\ o.total_amount = SumOf(ItemsOf(o), "line_total")

\* the quantity of product id sold by the line items of a sale form
RECURSIVE QuantitySold(_, _)
QuantitySold(items, id) ==
  IF items = <<>> THEN 0
  ELSE (IF Head(items).product_id = id THEN Head(items).quantity ELSE 0)
       + QuantitySold(Tail(items), id)

\* C18: when createSale has updated the stock for the last line item, the
\* stock of every product the sale refers to is its stock before the sale
\* (the stock the page had loaded when the sale was submitted) minus the sum
\* of the quantities of all line items of the sale that refer to the product.
C18_StockDecreasedByQuantitySold ==
  [][pc[1] = "sale_stock" /\ pc'[1] # "sale_stock" =>
       \A before \in list[1] :
         QuantitySold(ctx[1].form.items, before.id) > 0 =>
           \E after \in products' :
             /\ after.id = before.id
             /\ after.stock_quantity =
                  before.stock_quantity - QuantitySold(ctx[1].form.items, before.id)]_vars
\* while a sale is being stored the loaded product list is the stored one
LoadedIsStoredBeforeSale == pc[1] = "sale_items" => list[1] = products

\* the grid of the uploaded file the wizard of session 1 works on
UploadedGrid == (CHOOSE f \in HeaderFiles : f.name = wizard[1].file).grid
IsMarked(row) == RowIncludes(row, hTarihSaat) \/ RowIncludes(row, hDate)
\* the rows of the grid from index first on, read under the header at index header
RowsUnder(grid, header, first) ==
  SelectSeq([k \in 1..(Len(grid) - first) |->
               ParsedRowOf(grid[header + 1], grid[first + k])],
            LAMBDA r : DOMAIN r # {})

\* C19: after a bank file is uploaded, if one of the first 25 rows of its
\* grid holds a cell equal to 'Tarih/Saat' or 'Date', the first such row is
\* the header row and the data rows are the rows after it; otherwise row 0 is
\* the header row and the data rows start at row 1.
C19_HeaderDetection ==
  wizard[1].currentStep \in {2, 3} =>
    LET grid == UploadedGrid
        marked == {i \in 0..24 : i < Len(grid) /\ IsMarked(grid[i + 1])}
    IN IF marked # {}
       THEN \E h \in marked :
              /\ \A j \in marked : h <= j
              /\ wizard[1].parsedData = RowsUnder(grid, h, h + 1)
       ELSE wizard[1].parsedData = RowsUnder(grid, 0, 1)
\* the sheet with three blank rows and the header at index 3 is uploaded: its
\* data rows are the rows from index 4 on
C19_Witness ==
  /\ wizard[1].currentStep = 2 /\ wizard[1].file = "e.xlsx"
  /\ wizard[1].parsedData = <<ParsedRowOf(IsbankHeader, BankRowA)>>

\* the date cells of the rows the wizard of session 1 holds
DateCells ==
  {Cell(wizard[1].parsedData[i], wizard[1].columnMapping.txn_date)
   : i \in DOMAIN wizard[1].parsedData}
\* the part of a value before its first '-' or space, and its segments
DatePartOf(v) == Split(v, {"-", " "})[1]
SegmentsOf(v) == Split(DatePartOf(v), {"/"})
AllDigits(str) == \A i \in DOMAIN str : str[i] \in Digits
\* year-month-day with day and month padded with '0' to two characters
TwoCharacters(x) ==
  IF Len(x) = 0 THEN <<"0", "0">> ELSE IF Len(x) = 1 THEN <<"0">> \o x ELSE x
YearMonthDay(seg) ==
  seg[3] \o <<"-">> \o TwoCharacters(seg[2]) \o <<"-">> \o TwoCharacters(seg[1])
\* three segments: day and month of at most 2 digits, a year of 4 digits
IsDayMonthYear(v) ==
  /\ Includes(v, <<"/">>)
  /\ Len(SegmentsOf(v)) = 3
  /\ Len(SegmentsOf(v)[1]) <= 2 /\ AllDigits(SegmentsOf(v)[1])
  /\ Len(SegmentsOf(v)[2]) <= 2 /\ AllDigits(SegmentsOf(v)[2])
  /\ Len(SegmentsOf(v)[3]) = 4 /\ AllDigits(SegmentsOf(v)[3])
\* three segments: the first two of at most 2 characters, the third of 4
HasDayMonthYearLengths(v) ==
  /\ Includes(v, <<"/">>)
  /\ Len(SegmentsOf(v)) = 3
  /\ Len(SegmentsOf(v)[1]) <= 2
  /\ Len(SegmentsOf(v)[2]) <= 2
  /\ Len(SegmentsOf(v)[3]) = 4

RawAmount(row) == parseFloat(Cell(row, wizard[1].columnMapping.amount))
DirectionCell(row) == Cell(row, wizard[1].columnMapping.direction)
\* the rows of the sheet that the running import of session 1 stores
ImportedRows ==
  {i \in DOMAIN wizard[1].parsedData :
     \E k \in DOMAIN ctx[1].rows : ctx[1].rows[k] = transactionsToImport(wizard[1])[i]}

\* C21: every imported bank row is stored with the absolute value of its raw
\* amount; its direction is, when a direction column is mapped, 'out'
\* exactly when the cell of that column contains 'out' ignoring case and
\* 'in' otherwise, and, when no direction column is mapped, 'out' exactly
\* when the raw amount is negative.
C21_AmountAndDirection ==
  pc[1] \in {"bank_insert", "bank_ledger"} =>
    \A i \in ImportedRows :
      LET row == wizard[1].parsedData[i]
          txn == transactionsToImport(wizard[1])[i]
      IN /\ txn.amount = Abs(RawAmount(row))
         /\ txn.direction =
              IF wizard[1].columnMapping.direction # <<>>
              THEN (IF Includes(toLowerCase(DirectionCell(row)), <<"o", "u", "t">>)
                    THEN "out" ELSE "in")
              ELSE (IF RawAmount(row) < 0 THEN "out" ELSE "in")

\* one of the three required columns is not mapped in the wizard of session 1
SomeRequiredUnmapped ==
  \/ wizard[1].columnMapping.txn_date = <<>>
  \/ wizard[1].columnMapping.description = <<>>
  \/ wizard[1].columnMapping.amount = <<>>

\* C22: whenever the wizard is at the preview step or beyond, or an import
\* is running, the date, description and amount columns are all mapped; a
\* step taken from the mapping step while one of them is unmapped does not
\* reach the preview step and leaves the record store as it is.
C22_RequiredMappings ==
  [][/\ (wizard'[1].currentStep \in {3, 4} \/ pc'[1] \in {"bank_insert", "bank_ledger"})
        => ~ SomeRequiredUnmapped'
     /\ (wizard[1].currentStep = 2 /\ SomeRequiredUnmapped)
        => /\ wizard'[1].currentStep \in {1, 2}
           /\ pc'[1] \notin {"bank_insert", "bank_ledger"}
           /\ store' = store]_vars
\* an import runs on a sheet whose direction column the admin mapped by hand
C22_Witness ==
  /\ pc[1] = "bank_ledger" /\ wizard[1].file = "q.xlsx"
  /\ wizard[1].columnMapping.direction = hYon
  /\ ~ SomeRequiredUnmapped

\* C23: every data row after the header with no populated cell under any
\* named header column is skipped: each parsed record the wizard holds, of
\* which the transactions of an import are made, has a populated cell.
C23_BlankRowsSkipped ==
  \A i \in DOMAIN wizard[1].parsedData :
    \E h \in DOMAIN wizard[1].parsedData[i] : wizard[1].parsedData[i][h] # <<>>

\* C24: a blank cell of the header row never becomes a column name offered
\* for mapping nor a key of a parsed record, whether the header row was found
\* by the marker scan or row 0 was taken by default.
C24_BlankHeaderCellsIgnored ==
  /\ \A i \in DOMAIN wizard[1].columnNames : wizard[1].columnNames[i] # <<>>
  /\ \A i \in DOMAIN wizard[1].parsedData : <<>> \notin DOMAIN wizard[1].parsedData[i]
\* the sheet without marker, whose row 0 has a blank cell between two names,
\* has been read: the two names are offered and are the keys of its record
C24_Witness ==
  /\ wizard[1].file = "t.xlsx"
  /\ wizard[1].columnNames = <<hAciklama, hTutar>>
  /\ Len(wizard[1].parsedData) = 1
  /\ DOMAIN wizard[1].parsedData[1] = {hAciklama, hTutar}

\* C25: each ledger entry of type reimbursement_payment or cash_expense has
\* an amount < 0 and each entry of type membership_fee_payment or merch_sale
\* an amount > 0.
C25_SignByType ==
  \A l \in transactions_ledger :
    /\ l.txn_type \in {"reimbursement_payment", "cash_expense"} => l.amount < 0
    /\ l.txn_type \in {"membership_fee_payment", "merch_sale"} => l.amount > 0

\* the stored records of the kind a reference_type names
ReferencedTable(reference_type) ==
  CASE reference_type = "membership_fee" -> membership_fees
    [] reference_type = "reimbursement" -> reimbursements
    [] reference_type = "cash_expense" -> cash_expenses
    [] reference_type = "sale_order" -> sales_orders
    [] reference_type = "bank_transaction" -> bank_transactions
    [] OTHER -> {}

\* C26: every ledger entry has reference_type and reference_id set, and its
\* reference_id identifies the stored fee, reimbursement, cash expense, sales
\* order or bank transaction that caused it.
C26_ReferenceBack ==
  \A l \in transactions_ledger :
    /\ l.reference_type \in {"membership_fee", "reimbursement", "cash_expense",
                           "sale_order", "bank_transaction"}
    /\ l.reference_id # NULL
    /\ \E r \in ReferencedTable(l.reference_type) : r.id = l.reference_id

\* the rows of the sheet in the wizard of session 1 that its import drops as
\* duplicates
DroppedAsDuplicate ==
  {i \in DOMAIN wizard[1].parsedData :
     LET new == newTransactions(transactionsToImport(wizard[1]))
     IN \A k \in DOMAIN new : new[k] # transactionsToImport(wizard[1])[i]}

\* C27: the import drops a row as a duplicate only when a stored transaction
\* has the same normalized date, the same description and the same amount
\* (with no direction column mapped, the same stored amount and direction).
C27_DuplicateOnlyWhenSame ==
  (wizard[1].currentStep = 3 /\ wizard[1].columnMapping.direction = <<>>) =>
    \A i \in DroppedAsDuplicate :
      LET txn == transactionsToImport(wizard[1])[i]
      IN \E b \in bank_transactions :
           /\ b.txn_date = txn.txn_date
           /\ b.description = txn.description
           /\ b.amount = txn.amount /\ b.direction = txn.direction

\* C28: after any sequence of bank imports by one session the stored bank
\* transactions have as many different import_hash values as there are
\* transactions, also when an imported file holds the same row twice.
C28_UniqueImportHashOneSession ==
  Cardinality({b.import_hash : b \in bank_transactions}) = Cardinality(bank_transactions)

\* the position of a member: net_balance plus the sum of the member's ledger
\* amounts
Position(member) ==
  MemberBalance(member).net_balance
  + SumOf({l \in transactions_ledger : l.member_id = member.id}, "amount")
\* what the member was charged with fees less what the member was granted as
\* reimbursements, paid or not
Charged(member) ==
  SumOf({f \in membership_fees : f.member_id = member.id}, "amount")
  - SumOf({r \in reimbursements : r.member_id = member.id}, "amount")

\* C29: marking a fee or a reimbursement paid leaves the position of every
\* member as it was.  Fees and reimbursements enter the position when they
\* are recorded, as unpaid, with their amount; so, sales apart, whenever no
\* mark-paid is under way the position of a member is what the member was
\* charged, however many fees and reimbursements have been marked paid.
C29_MarkPaidConservesPosition ==
  (/\ sales_orders = {}
   /\ \A s \in Sessions : pc[s] \notin {"fee_ledger", "reimbursement_ledger"}) =>
    \A m \in members : Position(m) = Charged(m)

\* C30: whatever sales two sessions make, whenever no sale is under way the
\* stock of every product is its initial stock minus the sum of the
\* quantities of all stored sales order items for the product.
C30_StockConserved ==
  (\A s \in Sessions : pc[s] \notin {"sale_items", "sale_stock"}) =>
    \A p \in products :
      \E initial \in StockQuantities :
        p.stock_quantity =
          initial - SumOf({i \in sales_order_items : i.product_id = p.id}, "quantity")

====
